---- MODULE Spec2Model ----
(***************************************************************************)
(* VoiceNote-AI backend: the chunk store (chunk_storage_service.py), the   *)
(* map-reduce summarizer (ai_summary_service.py) and the orchestrator      *)
(* (transcription_service.py) as one state machine over the Supabase       *)
(* tables and buckets they read and write.                                 *)
(*                                                                         *)
(* One handler runs at a time.  Every external call (chat completion,      *)
(* Whisper, bucket upload/update/download, table insert/select/update) is  *)
(* a step whose outcome the environment chooses.                           *)
(***************************************************************************)
EXTENDS Integers, Sequences, FiniteSets, TLC

\* ------------------------------------------------------------------ bounds
\* Longest chunk list of the recording's transcript (the chunker is a pure
\* function of the transcript, so every run for the recording gets the same list).
MaxChunks == 2
\* Number of top-level handler invocations in one behaviour.
MaxCalls == 2
\* Number of transcribe_recording runs made for the recording before the
\* behaviour starts (specification RetranscribedSpec).
MaxTranscriptions == 2
\* Number of chunks each of the two concurrent runs is called with
\* (specification ConcSpec).
MaxRunChunks == 1
\* Number of external calls in one behaviour that do not take their nominal
\* outcome (a failed model call, a storage error, an empty insert response...).
MaxFaults == 2

\* --------------------------------------------------------------- constants
NoneVal == "None"
RecordingId == "rec"
UserId == "user"

VARIABLES
    \* ---- Supabase tables and buckets (persistent)
    recStatus,          \* recordings.status of RecordingId, "absent" if no row
    transcriptionRows,  \* table transcription, in the order select returns
    transcriptionBlobs, \* bucket Transcription: path -> transcript text
    chunkRows,          \* table chunk
    chunkBlobs,         \* bucket Chunks: path -> chunk_data payload
    summaryRows,        \* table summaries
    summaryBlobs,       \* bucket Summaries: path -> unified summary JSON
    nextUuid,           \* number of uuid.uuid4() values handed out so far
    issued,             \* the identifiers handed out so far
    clock,              \* number of datetime.now() readings so far
    faults,             \* external calls that did not take their nominal outcome
    \* ---- the running handler
    pc,                 \* where the running handler is; "done" once it has
                        \* returned, "raised" once it has raised
    entry,              \* the handler invoked from outside
    calls,              \* top-level invocations so far
    trace,              \* external calls made by the current invocation
    \* ---- store_chunks locals
    chunks,             \* argument: the chunk texts of the recording's transcript
    chunk_ids,
    sc_i,               \* loop index (0-based, as enumerate)
    store_result,       \* return value
    \* ---- process_chunks_for_recording locals
    chunk_data,         \* argument: list of <<chunk_id, chunk_text>>
    pcr_i,              \* number of loop iterations completed
    chunk_summaries,
    successful_summaries,
    failed_summaries,
    unified_output,     \* empty until built, then the one dictionary
    summary_result,     \* return value
    \* ---- transcribe_recording / summarize_recording locals
    transcription_id,
    transcription_result,
    summarize_result,
    \* ---- preprocess_and_chunk_text arguments, local and return value
    input_text,           \* argument `text`: the raw transcript, a sequence of
                          \* characters
    chunk_size_tokens,
    chunk_overlap_tokens,
    cleaned_text,
    text_chunks,          \* return value: the list of chunks
    \* ---- delete_recording (main.py): the audio file and the handler's locals
    audioStored,          \* bucket recordings holds the audio file
    recording_file_path,  \* file_path of the recordings row: <<>> when it is
                          \* None, empty or missing, else the one path
    storage_errors,
    delete_response,      \* the HTTP answer
    \* ---- two concurrent runs of process_chunks_for_recording
    run_pc,               \* where each run is
    run_locals            \* the locals of each run

dbVars == <<recStatus, transcriptionRows, transcriptionBlobs, chunkRows,
            chunkBlobs, summaryRows, summaryBlobs>>
scVars == <<chunks, chunk_ids, sc_i, store_result>>
pcrVars == <<chunk_data, pcr_i, chunk_summaries, successful_summaries,
             failed_summaries, unified_output, summary_result>>
trVars == <<transcription_id, transcription_result, summarize_result>>
tpVars == <<input_text, chunk_size_tokens, chunk_overlap_tokens, cleaned_text,
            text_chunks>>
delVars == <<audioStored, recording_file_path, storage_errors, delete_response>>
concVars == <<run_pc, run_locals>>
vars == <<recStatus, transcriptionRows, transcriptionBlobs, chunkRows,
          chunkBlobs, summaryRows, summaryBlobs, nextUuid, issued, clock,
          faults, pc, entry,
          calls, trace, chunks, chunk_ids, sc_i, store_result, chunk_data,
          pcr_i, chunk_summaries, successful_summaries, failed_summaries,
          unified_output, summary_result, transcription_id,
          transcription_result, summarize_result, input_text, chunk_size_tokens,
          chunk_overlap_tokens, cleaned_text, text_chunks, audioStored, recording_file_path,
          storage_errors, delete_response, run_pc, run_locals>>

\* ---------------------------------------------------------------- helpers
\* `not xs` with the check left out: no list counts as empty
IsEmptyListIgnored(xs) == FALSE
\* `not xs` for a list xs (ai_summary_service.py:54 and :84)
IsEmptyList(xs) == Len(xs) = 0

\* uuid.uuid4(): the n-th identifier handed out; never repeats.
uuid4(n) == n + 1

\* the path of text_processing.py:117, without the transcription id
chunk_file_path_flat(rid, tid, cid) == <<rid, cid, ".json">>
\* f"{recording_id}/{transcription_id}/{chunk_id}.json"
chunk_file_path(rid, tid, cid) == <<rid, tid, cid, ".json">>
\* f"Chunks/{chunk_file_path}"
chunk_path(p) == <<"Chunks">> \o p
\* f"{summary_id}.json"
summary_file_path(sid) == <<sid, ".json">>
\* f"Summaries/{summary_file_path}"
summary_path_of(p) == <<"Summaries">> \o p
\* summary_path.replace('Summaries/', '')
strip_bucket(p) == IF Len(p) > 0 /\ Head(p) \in {"Summaries", "Transcription"}
                   THEN Tail(p) ELSE p
\* f"chunk_{i}" with the enumeration started at 0
chunk_key_from_zero(i) == <<"chunk_", i - 1>>
\* f"chunk_{i}" for i from enumerate(chunk_summaries, 1)
chunk_key(i) == <<"chunk_", i>>

\* a function extended or overwritten at one point (bucket upload / update)
Put(f, k, v) == (k :> v) @@ f

\* the external calls of the current invocation that match a predicate
Calls(kind) == SelectSeq(trace, LAMBDA e : e[1] = kind)

\* The chunk texts of a call: n distinct texts, identified by position.
ChunkTexts(n) == [i \in 1..n |-> <<"text", i>>]

\* The environment picks outcome o of an external call whose nominal outcome
\* is `nominal`; any other outcome uses up one of the MaxFaults faults.
Env(o, nominal) ==
    /\ o = nominal \/ faults < MaxFaults
    /\ faults' = IF o = nominal THEN faults ELSE faults + 1

\* ------------------------------------------------------------- invocation
\* recordings.status of the recording before the first invocation
InitialStatuses == {"absent", "recorded", "summarized"}

\* A new invocation: the locals of every handler back to their initial values;
\* the trace starts with the handler invoked and the recording's status then.
FreshLocals(handler) ==
    /\ trace' = <<<<"invoke", handler, recStatus>>>>
    /\ chunk_ids' = <<>>
    /\ sc_i' = 0
    /\ store_result' = NoneVal
    /\ chunk_data' = <<>>
    /\ pcr_i' = 0
    /\ chunk_summaries' = <<>>
    /\ successful_summaries' = 0
    /\ failed_summaries' = 0
    /\ unified_output' = <<>>
    /\ summary_result' = NoneVal
    /\ transcription_id' = NoneVal
    /\ transcription_result' = NoneVal
    /\ summarize_result' = NoneVal

\* =========================================================================
\* chunk_storage_service.py : ChunkStorageService.store_chunks
\* =========================================================================
\* The transcription_id argument callers pass to store_chunks.
TranscriptionArg == "transcription"

\* Outcomes of bucket.upload(): stored; rejected because an object is already
\* at the path (an "already exists"/"Duplicate" error); any other error.
\* An object at the path always gives "already exists"; without one the answer
\* is still possible (the object of an attempt whose reply was lost).
UploadAnswers(path, bucket) ==
    IF path \in DOMAIN bucket THEN {"exists", "error"} ELSE {"ok", "exists", "error"}
NominalUpload(path, bucket) == IF path \in DOMAIN bucket THEN "exists" ELSE "ok"
\* Outcomes of table.insert().execute(): a row comes back; no row comes back
\* (response.data empty); it raises and the follow-up select finds the row,
\* finds nothing, or raises too, the row then being unwritten or written.
InsertOutcomes == {"ok", "no_data", "raise_found", "raise_missing",
                   "raise_select_raises", "raise_landed_select_raises"}

\* After an insert attempt the row is in the table iff the insert wrote it:
\* it returned the row, or it raised after writing, whether the select that
\* follows then finds the row or raises itself.
RowLanded(o) == o \in {"ok", "raise_found", "raise_landed_select_raises"}

\* chunk_data = {...}  (chunk_storage_service.py:50-58)
chunk_payload(cid, rid, tid, text, i, n, now) ==
    [chunk_id |-> cid, recording_id |-> rid, transcription_id |-> tid,
     chunk_data |-> text, chunk_number |-> i + 1, total_chunks |-> n,
     created_at |-> now]

\* chunk_metadata = {...}  (chunk_storage_service.py:78-84)
chunk_metadata(cid, path, rid, uid, now) ==
    [chunk_id |-> cid, chunk_path |-> path, recording_id |-> rid,
     user_id |-> uid, created_at |-> now]

\* line 71 with the test left out: no upload error counts as a duplicate
upload_error_is_duplicate_never(o) == FALSE
\* line 71 with the test always true: every upload error is skipped
upload_error_is_duplicate_always(o) == o \in {"exists", "error"}
\* line 71: "already exists" in str(upload_error) or "Duplicate" in str(upload_error)
upload_error_is_duplicate(o) == o = "exists"

\* lines 90-97 without the look-up of an existing row: every insert error is
\* raised again
chunk_insert_error_propagates_always(o) ==
    o \in {"raise_found", "raise_missing", "raise_select_raises",
           "raise_landed_select_raises"}
\* lines 90-97: an insert error is raised again unless the select that follows
\* finds a row with the chunk id (a failing select raises itself)
chunk_insert_error_propagates(o) ==
    o \in {"raise_missing", "raise_select_raises", "raise_landed_select_raises"}

\* the loop of line 44 ending one chunk early
sc_next_skips_last(i, n) == IF i + 1 < n THEN "sc_upload" ELSE "sc_trigger"
\* where store_chunks goes after loop iteration i of n
sc_next(i, n) == IF i < n THEN "sc_upload" ELSE "sc_trigger"

store_chunks_invoke ==
    /\ pc \in {"idle", "done", "raised"}
    /\ calls < MaxCalls
    /\ pc' = sc_next(0, Len(chunks))
    /\ UNCHANGED chunks
    /\ calls' = calls + 1
    /\ entry' = "store_chunks"
    /\ FreshLocals("store_chunks")
    /\ UNCHANGED <<dbVars, nextUuid, clock, faults>>
    /\ UNCHANGED issued
    /\ UNCHANGED tpVars
    /\ UNCHANGED <<delVars, concVars>>

\* line 116 of text_processing.py in place of line 46: the chunk id derived
\* from the position of the chunk
new_chunk_id_positional(n, i) == i + 1
\* line 46: chunk_id = str(uuid.uuid4()), the n-th draw, for the chunk at index i
new_chunk_id(n, i) == uuid4(n)

\* lines 44-74: a fresh chunk id, the payload, and the upload to bucket Chunks
store_chunks_upload ==
    /\ pc = "sc_upload"
    /\ LET cid == new_chunk_id(nextUuid, sc_i)
           path == chunk_file_path(RecordingId, TranscriptionArg, cid)
           payload == chunk_payload(cid, RecordingId, TranscriptionArg,
                                    chunks[sc_i + 1], sc_i, Len(chunks), clock + 1)
       IN /\ nextUuid' = nextUuid + 1
          /\ issued' = issued \cup {cid}
          /\ clock' = clock + 1
          /\ chunk_ids' = Append(chunk_ids, cid)
          /\ \E o \in UploadAnswers(path, chunkBlobs) :
               /\ Env(o, NominalUpload(path, chunkBlobs))
               /\ trace' = Append(trace, <<"upload", "Chunks", path, o>>)
               \* the bucket: the object is stored by a successful upload, and
               \* by one whose reply was lost (answered "already exists" next)
               /\ chunkBlobs' = IF o = "ok" \/ (o = "exists" /\ path \notin DOMAIN chunkBlobs)
                                THEN Put(chunkBlobs, path, payload)
                                ELSE chunkBlobs
               \* the code: lines 63-74
               /\ pc' = IF o = "ok" \/ upload_error_is_duplicate(o)
                        THEN "sc_insert"
                        ELSE "raised"   \* raise upload_error -> line 115 -> raise
    /\ UNCHANGED <<recStatus, transcriptionRows, transcriptionBlobs, chunkRows,
                   summaryRows, summaryBlobs, entry, calls, chunks, sc_i,
                   store_result, pcrVars, trVars>>
    /\ UNCHANGED tpVars
    /\ UNCHANGED <<delVars, concVars>>

\* lines 76-97: the metadata row of the chunk just uploaded
store_chunks_insert ==
    /\ pc = "sc_insert"
    /\ LET cid == chunk_ids[sc_i + 1]
           path == chunk_path(chunk_file_path(RecordingId, TranscriptionArg, cid))
           row == chunk_metadata(cid, path, RecordingId, UserId, clock + 1)
       IN /\ clock' = clock + 1
          /\ \E o \in InsertOutcomes :
               /\ Env(o, "ok")
               /\ trace' = trace \o <<<<"insert", "chunk", cid, o>>>> \o
                             (IF o \in {"ok", "no_data"} THEN <<>>
                              ELSE <<<<"select", "chunk", cid>>>>)
               /\ chunkRows' = IF RowLanded(o) THEN Append(chunkRows, row)
                               ELSE chunkRows
               /\ IF chunk_insert_error_propagates(o)
                  THEN /\ pc' = "raised"
                       /\ UNCHANGED <<sc_i, store_result>>
                  ELSE /\ sc_i' = sc_i + 1
                       /\ pc' = sc_next(sc_i + 1, Len(chunks))
                       /\ UNCHANGED store_result
    /\ UNCHANGED <<recStatus, transcriptionRows, transcriptionBlobs, chunkBlobs,
                   summaryRows, summaryBlobs, nextUuid, entry, calls, chunks,
                   chunk_ids, pcrVars, trVars>>
    /\ UNCHANGED issued
    /\ UNCHANGED tpVars
    /\ UNCHANGED <<delVars, concVars>>

\* zip(chunk_ids, chunks)
zip(xs, ys) == [i \in 1..(IF Len(xs) < Len(ys) THEN Len(xs) ELSE Len(ys))
                  |-> <<xs[i], ys[i]>>]

\* _trigger_ai_summarization, lines 131-152: build chunk_data, construct the
\* AISummaryService (which may raise) and call process_chunks_for_recording
trigger_ai_summarization ==
    /\ pc = "sc_trigger"
    /\ chunk_data' = zip(chunk_ids, chunks)
    /\ \E constructed \in BOOLEAN :
         /\ Env(constructed, TRUE)
         /\ IF constructed
            THEN /\ pc' = "pcr_begin"
                 /\ UNCHANGED summary_result
            ELSE /\ summary_result' = [status |-> "error",
                                       message |-> "Error in AI summarization",
                                       recording_id |-> RecordingId,
                                       summaries_generated |-> 0]
                 /\ pc' = "sc_return"
    /\ UNCHANGED <<dbVars, nextUuid, clock, entry, calls, trace, scVars, pcr_i,
                   chunk_summaries, successful_summaries, failed_summaries,
                   unified_output, trVars>>
    /\ UNCHANGED issued
    /\ UNCHANGED tpVars
    /\ UNCHANGED <<delVars, concVars>>

\* dict.get(key, default) that never finds the key
dict_get_missing(d, k, default) == default
\* dict.get(key, default)
dict_get(d, k, default) == IF k \in DOMAIN d THEN d[k] ELSE default

\* lines 104-113: the combined return value
store_chunks_return ==
    /\ pc = "sc_return"
    /\ store_result' =
         [status |-> "success",
          recording_id |-> RecordingId,
          chunks_stored |-> Len(chunks),
          chunk_ids |-> chunk_ids,
          unified_summary |-> dict_get(summary_result, "unified_summary", NoneVal),
          summarization_status |-> dict_get(summary_result, "status", "unknown")]
    /\ pc' = "done"
    /\ UNCHANGED <<dbVars, nextUuid, clock, faults, entry, calls, trace, chunks,
                   chunk_ids, sc_i, pcrVars, trVars>>
    /\ UNCHANGED issued
    /\ UNCHANGED tpVars
    /\ UNCHANGED <<delVars, concVars>>

\* =========================================================================
\* ai_summary_service.py : AISummaryService.process_chunks_for_recording
\* =========================================================================
\* Outcomes of the chat-completion call for one chunk.
ChunkCallOutcomes == {"ok", "error"}
\* Outcomes of the consolidation call: the response parses as the requested
\* three-field JSON object; it parses as some other JSON object; it does not
\* parse; the call itself raises.
ConsolidationOutcomes == {"json", "json_other", "not_json", "error"}

\* f"Error generating summary: {str(e)}"
error_marker == <<"Error generating summary: ", "e">>
IsErrorMarker(text) == text[1] = "Error generating summary: "

\* _generate_chunk_summary with its except clause removed
generate_chunk_summary_raises(chunk_text, outcome) ==
    IF outcome = "ok"
    THEN [raised |-> FALSE, value |-> <<"summary of ", chunk_text>>]
    ELSE [raised |-> TRUE, value |-> NoneVal]

\* _generate_chunk_summary, lines 207-236: the summary text of the response,
\* or the error marker when the call raised; it never raises itself
generate_chunk_summary(chunk_text, outcome) ==
    IF outcome = "ok"
    THEN [raised |-> FALSE, value |-> <<"summary of ", chunk_text>>]
    ELSE [raised |-> FALSE, value |-> error_marker]

\* _create_chunk_summary_json, lines 285-290
create_chunk_summary_json(cid, text) == [chunk_id |-> cid, chunk_summary |-> text]

\* lines 309-312 listing the chunk summaries last to first
consolidated_input_reversed(cs) ==
    [i \in 1..Len(cs) |-> <<i, cs[Len(cs) + 1 - i].chunk_id,
                            cs[Len(cs) + 1 - i].chunk_summary>>]
\* lines 309-312: what the consolidation prompt lists, in order
consolidated_input(cs) ==
    [i \in 1..Len(cs) |-> <<i, cs[i].chunk_id, cs[i].chunk_summary>>]

\* _synthesize_chunk_summaries_to_consolidated, lines 345-367
synthesize_chunk_summaries_to_consolidated(outcome) ==
    CASE outcome = "json" ->
           [executive_summary |-> "model executive summary",
            key_points |-> "model key points",
            detailed_summary |-> "model detailed summary"]
      [] outcome = "json_other" ->
           [executive_summary |-> "model executive summary"]
      [] outcome = "not_json" ->
           [executive_summary |-> <<"raw response[:300]", "...">>,
            key_points |-> <<"* ", "raw response[:200]", "...">>,
            detailed_summary |-> <<"raw response">>]
      [] outcome = "error" ->
           [executive_summary |-> <<"Error synthesizing summary: ", "e">>,
            key_points |-> <<"* Error occurred during synthesis">>,
            detailed_summary |-> <<"Error synthesizing summary: ", "e">>]

\* lines 106-111: chunk summaries under the keys chunk_1, chunk_2, ...
chunk_summaries_dict(cs) ==
    [k \in {chunk_key(i) : i \in 1..Len(cs)} |->
        LET i == CHOOSE j \in 1..Len(cs) : chunk_key(j) = k
        IN [chunk_id |-> cs[i].chunk_id,
            chunk_summary |-> cs[i].chunk_summary]]

\* lines 127-135
overall_status(successful, failed) ==
    IF successful > 0 /\ failed = 0 THEN "success"
    ELSE IF successful > 0 /\ failed > 0 THEN "partial_success"
    ELSE "error"

\* lines 148-154 with the exception raised again instead of the error return
pcr_error_reraised(message) ==
    [status |-> "exception", message |-> message, recording_id |-> RecordingId]
\* the three error returns (lines 56-60, 85-89, 150-154)
pcr_error(message) ==
    [status |-> "error", message |-> message, recording_id |-> RecordingId]

\* lines 52-65
process_chunks_begin ==
    /\ pc = "pcr_begin"
    /\ IF IsEmptyList(chunk_data)
       THEN /\ summary_result' = pcr_error("No chunks provided for summarization")
            /\ pc' = "sc_return"
       ELSE /\ pc' = IF Len(chunk_data) > 0 THEN "pcr_chunk" ELSE "pcr_consolidate"
            /\ UNCHANGED summary_result
    /\ chunk_summaries' = <<>>
    /\ successful_summaries' = 0
    /\ failed_summaries' = 0
    /\ pcr_i' = 0
    /\ UNCHANGED <<dbVars, nextUuid, clock, faults, entry, calls, trace, scVars,
                   chunk_data, unified_output, trVars>>
    /\ UNCHANGED issued
    /\ UNCHANGED tpVars
    /\ UNCHANGED <<delVars, concVars>>

\* lines 72-82 without the increment of successful_summaries
loop_body_uncounted(cs, successful, failed, cid, r) ==
    IF r.raised
    THEN [chunk_summaries |-> cs, successful |-> successful, failed |-> failed + 1]
    ELSE [chunk_summaries |-> Append(cs, create_chunk_summary_json(cid, r.value)),
          successful |-> successful, failed |-> failed]

\* lines 72-82 with the two counters swapped
loop_body_all_failed(cs, successful, failed, cid, r) ==
    IF r.raised
    THEN [chunk_summaries |-> cs, successful |-> successful + 1, failed |-> failed]
    ELSE [chunk_summaries |-> Append(cs, create_chunk_summary_json(cid, r.value)),
          successful |-> successful, failed |-> failed + 1]

\* lines 68-82, the body of the loop: r is what _generate_chunk_summary did;
\* a summary is appended and counted, an exception is counted as a failure
loop_body(cs, successful, failed, cid, r) ==
    IF r.raised
    THEN [chunk_summaries |-> cs, successful |-> successful, failed |-> failed + 1]
    ELSE [chunk_summaries |-> Append(cs, create_chunk_summary_json(cid, r.value)),
          successful |-> successful + 1, failed |-> failed]

\* lines 67-82: one iteration of the loop over chunk_data
process_chunks_chunk ==
    /\ pc = "pcr_chunk"
    /\ LET cid == chunk_data[pcr_i + 1][1]
           text == chunk_data[pcr_i + 1][2]
       IN \E o \in ChunkCallOutcomes :
               /\ Env(o, "ok")
               /\ trace' = Append(trace, <<"chat_chunk", cid, text, o>>)
               /\ LET after == loop_body(chunk_summaries, successful_summaries,
                                         failed_summaries, cid,
                                         generate_chunk_summary(text, o))
                  IN /\ chunk_summaries' = after.chunk_summaries
                     /\ successful_summaries' = after.successful
                     /\ failed_summaries' = after.failed
    /\ pcr_i' = pcr_i + 1
    /\ pc' = IF pcr_i + 1 < Len(chunk_data) THEN "pcr_chunk" ELSE "pcr_consolidate"
    /\ UNCHANGED <<dbVars, nextUuid, clock, entry, calls, scVars, chunk_data,
                   unified_output, summary_result, trVars>>
    /\ UNCHANGED issued
    /\ UNCHANGED tpVars
    /\ UNCHANGED <<delVars, concVars>>

\* lines 345-367 and 93-102 without the except clauses: an error of the
\* consolidation call reaches the except clause of line 148
consolidation_error_propagates_call_error(o) == o = "error"
\* lines 345-367 and 93-102: _synthesize_chunk_summaries_to_consolidated
\* catches every exception itself, and so does its caller: no outcome of the
\* consolidation call ends the run
consolidation_error_propagates(o) == FALSE

\* lines 84-121: the consolidation call and the unified output
process_chunks_consolidate ==
    /\ pc = "pcr_consolidate"
    /\ IF IsEmptyList(chunk_summaries)
       THEN /\ summary_result' = pcr_error("Failed to generate any chunk summaries")
            /\ pc' = "sc_return"
            /\ UNCHANGED <<trace, clock, faults, unified_output>>
       ELSE /\ clock' = clock + 1
            /\ \E o \in ConsolidationOutcomes :
                 /\ Env(o, "json")
                 /\ trace' = Append(trace, <<"chat_consolidate",
                                              consolidated_input(chunk_summaries), o>>)
                 /\ IF consolidation_error_propagates(o)
                    THEN /\ summary_result' =
                              pcr_error("Error in summarization process")
                         /\ pc' = "sc_return"
                         /\ UNCHANGED unified_output
                    ELSE /\ unified_output' =
                              <<[recording_id |-> RecordingId,
                                 created_at |-> clock + 1,
                                 total_chunks |-> Len(chunk_data),
                                 successful_summaries |-> successful_summaries,
                                 failed_summaries |-> failed_summaries,
                                 chunk_summaries |->
                                     chunk_summaries_dict(chunk_summaries),
                                 consolidated_summary |->
                                     synthesize_chunk_summaries_to_consolidated(o)]>>
                         /\ pc' = "pcr_upload"
                         /\ UNCHANGED summary_result
    /\ UNCHANGED <<dbVars, nextUuid, entry, calls, scVars, chunk_data, pcr_i,
                   chunk_summaries, successful_summaries, failed_summaries,
                   trVars>>
    /\ UNCHANGED issued
    /\ UNCHANGED tpVars
    /\ UNCHANGED <<delVars, concVars>>

\* Outcomes of the Summaries upload: stored; "already exists" and the update
\* then succeeds or raises; any other error.
SummaryUploadOutcomes == {"ok", "exists_updated", "exists_update_raises", "error"}

\* lines 397-407 with the update error swallowed
store_upload_raises_update_swallowed(o) == o = "error"
\* lines 397-407 with every upload error taken for a duplicate
store_upload_raises_error_swallowed(o) == o = "exists_update_raises"
\* lines 397-407 and 438-440: an upload error other than a duplicate, or an
\* error of the update after a duplicate, is raised to the caller
store_upload_raises(o) == o \in {"exists_update_raises", "error"}

\* _store_unified_summary_with_metadata, lines 380-407: a fresh summary id and
\* the JSON document in bucket Summaries
store_unified_summary_upload ==
    /\ pc = "pcr_upload"
    /\ LET sid == uuid4(nextUuid)
           path == summary_file_path(sid)
           doc == [summary_id |-> sid] @@ unified_output[1]
       IN /\ nextUuid' = nextUuid + 1
          /\ issued' = issued \cup {sid}
          /\ unified_output' = <<doc>>
          /\ \E o \in SummaryUploadOutcomes :
               /\ Env(o, "ok")
               /\ trace' = trace \o <<<<"upload", "Summaries", path, o>>>> \o
                             (IF o \in {"exists_updated", "exists_update_raises"}
                              THEN <<<<"update", "Summaries", path, o>>>> ELSE <<>>)
               /\ IF ~store_upload_raises(o)
                  THEN /\ summaryBlobs' = Put(summaryBlobs, path, doc)
                       /\ pc' = "pcr_insert"
                       /\ UNCHANGED summary_result
                  ELSE \* raise -> line 438 -> raise -> line 148
                       /\ summary_result' = pcr_error("Error in summarization process")
                       /\ pc' = "sc_return"
                       /\ UNCHANGED summaryBlobs
    /\ UNCHANGED <<recStatus, transcriptionRows, transcriptionBlobs, chunkRows,
                   chunkBlobs, summaryRows, clock, entry, calls, scVars,
                   chunk_data, pcr_i, chunk_summaries, successful_summaries,
                   failed_summaries, trVars>>
    /\ UNCHANGED tpVars
    /\ UNCHANGED <<delVars, concVars>>

\* summary_metadata = {...}  (ai_summary_service.py:411-416)
summary_metadata(sid, rid, path, now) ==
    [summary_id |-> sid, recording_id |-> rid, summary_path |-> path,
     created_at |-> now]

\* _store_unified_summary_with_metadata, lines 409-436, then lines 126-146:
\* the summaries row, the overall status and the return value
store_unified_summary_insert ==
    /\ pc = "pcr_insert"
    /\ LET sid == unified_output[1].summary_id
           path == summary_path_of(summary_file_path(sid))
           row == summary_metadata(sid, RecordingId, path, clock + 1)
       IN /\ clock' = clock + 1
          /\ \E o \in InsertOutcomes :
               /\ Env(o, "ok")
               /\ trace' = trace \o <<<<"insert", "summaries", sid, o>>>> \o
                             (IF o \in {"ok", "no_data"} THEN <<>>
                              ELSE <<<<"select", "summaries", sid>>>>)
               /\ summaryRows' = IF RowLanded(o) THEN Append(summaryRows, row)
                                 ELSE summaryRows
               /\ summary_result' =
                    IF o \in {"raise_select_raises", "raise_landed_select_raises"}
                    THEN pcr_error("Error in summarization process")
                    ELSE [status |-> overall_status(successful_summaries,
                                                    failed_summaries),
                          message |-> <<successful_summaries, failed_summaries>>,
                          recording_id |-> RecordingId,
                          unified_summary |-> unified_output[1],
                          summary_id |-> sid,
                          summary_path |-> path]
    /\ pc' = "sc_return"
    /\ UNCHANGED <<recStatus, transcriptionRows, transcriptionBlobs, chunkRows,
                   chunkBlobs, summaryBlobs, nextUuid, entry, calls, scVars,
                   chunk_data, pcr_i, chunk_summaries, successful_summaries,
                   failed_summaries, unified_output, trVars>>
    /\ UNCHANGED issued
    /\ UNCHANGED tpVars
    /\ UNCHANGED <<delVars, concVars>>

\* =========================================================================
\* transcription_service.py : TranscriptionService.transcribe_recording
\* =========================================================================
\* f"{recording_id}/transcription.txt" and f"Transcription/{...}"
transcription_object_path(rid) == <<rid, "transcription.txt">>
transcription_full_path(rid) == <<"Transcription">> \o transcription_object_path(rid)

\* text_processing.py:80 declares process_transcription(recording_id);
\* transcription_service.py:262 calls it with three positional arguments.
process_transcription_params == 1
trigger_text_processing_args == 3
\* _trigger_text_processing, lines 258-268: the call raises TypeError when the
\* argument count does not fit the signature, and the exception is re-raised
trigger_text_processing_raises ==
    trigger_text_processing_args # process_transcription_params

\* return of transcribe_recording: to summarize_recording when it made the
\* call (line 316), to the outside otherwise
tr_return_pc == IF entry = "summarize_recording" THEN "sr_after_transcribe"
                ELSE "done"

tr_error(message) ==
    [status |-> "error", error |-> message, recording_id |-> RecordingId]

transcribe_recording_invoke ==
    /\ pc \in {"idle", "done", "raised"}
    /\ calls < MaxCalls
    /\ calls' = calls + 1
    /\ entry' = "transcribe_recording"
    /\ pc' = "tr_fetch"
    /\ FreshLocals("transcribe_recording")
    /\ UNCHANGED <<dbVars, nextUuid, clock, faults, chunks>>
    /\ UNCHANGED issued
    /\ UNCHANGED tpVars
    /\ UNCHANGED <<delVars, concVars>>

\* lines 51-67: the recording row and its audio file
transcribe_recording_fetch ==
    /\ pc = "tr_fetch"
    /\ \E o \in {"ok", "info_fails", "download_fails"} :
         /\ Env(o, "ok")
         /\ o = "download_fails" => recStatus # "absent"
         /\ LET found == recStatus # "absent" /\ o # "info_fails"
            IN /\ trace' = trace \o
                     <<<<"select", "recordings", RecordingId, o # "info_fails">>>> \o
                     (IF found THEN <<<<"download", "recordings", RecordingId,
                                        o # "download_fails">>>>
                      ELSE <<>>)
               /\ IF ~found
                  THEN /\ transcription_result' = tr_error("Recording not found")
                       /\ pc' = tr_return_pc
                  ELSE IF o = "download_fails"
                  THEN /\ transcription_result' = tr_error("Failed to download audio file")
                       /\ pc' = tr_return_pc
                  ELSE /\ pc' = "tr_stt"
                       /\ UNCHANGED transcription_result
    /\ UNCHANGED <<dbVars, nextUuid, clock, entry, calls, scVars, pcrVars,
                   transcription_id, summarize_result>>
    /\ UNCHANGED issued
    /\ UNCHANGED tpVars
    /\ UNCHANGED <<delVars, concVars>>

\* line 77, _transcribe_audio_content: the Whisper call; an error is re-raised
transcribe_audio_content ==
    /\ pc = "tr_stt"
    /\ \E o \in {"ok", "error"} :
         /\ Env(o, "ok")
         /\ trace' = Append(trace, <<"stt", RecordingId, o>>)
         /\ pc' = IF o = "ok" THEN "tr_store_upload" ELSE "tr_except"
    /\ UNCHANGED <<dbVars, nextUuid, clock, entry, calls, scVars, pcrVars, trVars>>
    /\ UNCHANGED issued
    /\ UNCHANGED tpVars
    /\ UNCHANGED <<delVars, concVars>>

\* _update_recording_transcription, lines 161-186: the recording's user_id and
\* the transcript in bucket Transcription
update_recording_transcription_upload ==
    /\ pc = "tr_store_upload"
    /\ LET path == transcription_object_path(RecordingId)
       IN \E o \in UploadAnswers(path, transcriptionBlobs) \cup {"info_fails"} :
            /\ Env(o, NominalUpload(path, transcriptionBlobs))
            /\ trace' = trace \o
                 <<<<"select", "recordings", RecordingId, o # "info_fails">>>> \o
                 (IF o = "info_fails" THEN <<>>
                  ELSE <<<<"upload", "Transcription", path, o>>>>)
            /\ transcriptionBlobs' =
                 IF o = "ok" \/ (o = "exists" /\ path \notin DOMAIN transcriptionBlobs)
                 THEN Put(transcriptionBlobs, path, "transcript")
                 ELSE transcriptionBlobs
            /\ pc' = IF o \in {"ok", "exists"} THEN "tr_store_insert" ELSE "tr_except"
    /\ UNCHANGED <<recStatus, transcriptionRows, chunkRows, chunkBlobs,
                   summaryRows, summaryBlobs, nextUuid, clock, entry, calls,
                   scVars, pcrVars, trVars>>
    /\ UNCHANGED issued
    /\ UNCHANGED tpVars
    /\ UNCHANGED <<delVars, concVars>>

\* rows of a table that belong to a recording (.eq('recording_id', ...))
rows_of(rows, rid) == SelectSeq(rows, LAMBDA r : r.recording_id = rid)

\* what a select with no order clause may answer: the rows in any order
select_orders(rows) ==
    {[i \in 1..Len(rows) |-> rows[p[i]]] : p \in Permutations(1..Len(rows))}

\* _update_recording_transcription, lines 188-214: the transcription row
update_recording_transcription_insert ==
    /\ pc = "tr_store_insert"
    /\ LET tid == uuid4(nextUuid)
           row == [transcription_id |-> tid, recording_id |-> RecordingId,
                   user_id |-> UserId,
                   transcription_path |-> transcription_full_path(RecordingId)]
       IN /\ nextUuid' = nextUuid + 1
          /\ issued' = issued \cup {tid}
          /\ \E o \in InsertOutcomes :
               /\ Env(o, "ok")
               /\ LET rows == IF RowLanded(o) THEN Append(transcriptionRows, row)
                              ELSE transcriptionRows
                  IN \E existing \in select_orders(rows_of(rows, RecordingId)) :
                     /\ transcriptionRows' = rows
                     /\ trace' = trace \o <<<<"insert", "transcription", tid, o>>>> \o
                                   (IF o = "ok" THEN <<>>
                                    ELSE <<<<"select", "transcription", RecordingId>>>>)
                     /\ IF o = "ok"
                        THEN /\ transcription_id' = tid
                             /\ pc' = "tr_store_status"
                        ELSE IF /\ o \notin {"raise_select_raises",
                                              "raise_landed_select_raises"}
                                /\ Len(existing) > 0
                        THEN /\ transcription_id' = existing[1].transcription_id
                             /\ pc' = "tr_store_status"
                        ELSE /\ pc' = "tr_except"
                             /\ UNCHANGED transcription_id
    /\ UNCHANGED <<recStatus, transcriptionBlobs, chunkRows, chunkBlobs,
                   summaryRows, summaryBlobs, clock, entry, calls, scVars,
                   pcrVars, transcription_result, summarize_result>>
    /\ UNCHANGED tpVars
    /\ UNCHANGED <<delVars, concVars>>

\* an update that changes no row
updated_status_kept(status) == recStatus
\* .update({'status': ...}).eq('recording_id', ...): only an existing row changes
updated_status(status) == IF recStatus = "absent" THEN recStatus ELSE status

\* _update_recording_transcription, lines 216-225: status 'processing'
update_recording_transcription_status ==
    /\ pc = "tr_store_status"
    /\ clock' = clock + 1
    /\ \E o \in {"ok", "error"} :
         /\ Env(o, "ok")
         /\ trace' = Append(trace, <<"update", "recordings", "processing", o>>)
         /\ IF o = "ok"
            THEN /\ recStatus' = updated_status("processing")
                 /\ pc' = "tr_trigger"
            ELSE /\ pc' = "tr_except"
                 /\ UNCHANGED recStatus
    /\ UNCHANGED <<transcriptionRows, transcriptionBlobs, chunkRows, chunkBlobs,
                   summaryRows, summaryBlobs, nextUuid, entry, calls, scVars,
                   pcrVars, trVars>>
    /\ UNCHANGED issued
    /\ UNCHANGED tpVars
    /\ UNCHANGED <<delVars, concVars>>

\* lines 82-90: _trigger_text_processing, then the success return
transcribe_recording_trigger ==
    /\ pc = "tr_trigger"
    /\ trace' = Append(trace, <<"process_transcription", trigger_text_processing_args>>)
    /\ IF trigger_text_processing_raises
       THEN /\ pc' = "tr_except"
            /\ UNCHANGED <<transcription_result, clock>>
       ELSE /\ transcription_result' =
                 [status |-> "success", recording_id |-> RecordingId,
                  transcription |-> "transcript", timestamp |-> clock + 1]
            /\ clock' = clock + 1
            /\ pc' = tr_return_pc
    /\ UNCHANGED <<dbVars, nextUuid, faults, entry, calls, scVars, pcrVars,
                   transcription_id, summarize_result>>
    /\ UNCHANGED issued
    /\ UNCHANGED tpVars
    /\ UNCHANGED <<delVars, concVars>>

\* lines 92-101 with _update_recording_status, lines 231-247: status 'error'
\* (a failing update is only logged) and the error return
transcribe_recording_except ==
    /\ pc = "tr_except"
    /\ clock' = clock + 2
    /\ \E o \in {"ok", "error"} :
         /\ Env(o, "ok")
         /\ trace' = Append(trace, <<"update", "recordings", "error", o>>)
         /\ recStatus' = IF o = "ok" THEN updated_status("error") ELSE recStatus
    /\ transcription_result' = [timestamp |-> clock + 2] @@ tr_error("e")
    /\ pc' = tr_return_pc
    /\ UNCHANGED <<transcriptionRows, transcriptionBlobs, chunkRows, chunkBlobs,
                   summaryRows, summaryBlobs, nextUuid, entry, calls, scVars,
                   pcrVars, transcription_id, summarize_result>>
    /\ UNCHANGED issued
    /\ UNCHANGED tpVars
    /\ UNCHANGED <<delVars, concVars>>

\* =========================================================================
\* transcription_service.py : TranscriptionService.summarize_recording
\* =========================================================================
\* line 390 without desc=True: the oldest row comes first
oldest_by_created_at(rows) ==
    LET n == CHOOSE i \in 1..Len(rows) :
                 \A j \in 1..Len(rows) : rows[i].created_at <= rows[j].created_at
    IN rows[n]
\* .order('created_at', desc=True).limit(1) over the rows of a recording
latest_by_created_at(rows) ==
    LET n == CHOOSE i \in 1..Len(rows) :
                 \A j \in 1..Len(rows) : rows[j].created_at <= rows[i].created_at
    IN rows[n]

\* _get_existing_summary, lines 388-420: the newest summaries row of the
\* recording and the JSON document it points at; None when there is no row
\* or when the select or the download fails.  The value is a sequence: empty
\* for None, else the one dictionary returned.
get_existing_summary(select_ok, download_ok) ==
    LET rows == rows_of(summaryRows, RecordingId)
    IN IF ~select_ok \/ Len(rows) = 0 THEN <<>>
       ELSE LET meta == latest_by_created_at(rows)
                filename == strip_bucket(meta.summary_path)
            IN IF ~download_ok \/ filename \notin DOMAIN summaryBlobs THEN <<>>
               ELSE <<[summary_metadata |-> meta,
                       unified_summary |-> summaryBlobs[filename],
                       summary_id |-> meta.summary_id,
                       summary_path |-> meta.summary_path]>>

sr_error(message) ==
    [status |-> "error", message |-> message, recording_id |-> RecordingId]

\* x.get(key) if x else None, for x given as an empty or one-element sequence
get_if(x, key) == IF Len(x) = 0 THEN NoneVal ELSE dict_get(x[1], key, NoneVal)

\* a success return that leaves the three summary fields out
sr_success_without_summary(message, source) ==
    [status |-> "success", message |-> message, recording_id |-> RecordingId]
\* the success returns (lines 300-308, 327-334, 361-368)
sr_success(message, source) ==
    [status |-> "success", message |-> message, recording_id |-> RecordingId,
     unified_summary |-> get_if(source, "unified_summary"),
     summary_id |-> get_if(source, "summary_id"),
     summary_path |-> get_if(source, "summary_path")]

summarize_recording_invoke ==
    /\ pc \in {"idle", "done", "raised"}
    /\ calls < MaxCalls
    /\ calls' = calls + 1
    /\ entry' = "summarize_recording"
    /\ pc' = "sr_begin"
    /\ FreshLocals("summarize_recording")
    /\ UNCHANGED <<dbVars, nextUuid, clock, faults, chunks>>
    /\ UNCHANGED issued
    /\ UNCHANGED tpVars
    /\ UNCHANGED <<delVars, concVars>>

\* lines 293-294 without the test of the status
already_summarized_any_status(info_ok) == info_ok
\* lines 293-294: the recording row was read and its status is 'summarized'
already_summarized(info_ok) == info_ok /\ recStatus = "summarized"

\* lines 283-308: the recording row and, for a summarized recording, the
\* summary persisted earlier
summarize_recording_begin ==
    /\ pc = "sr_begin"
    /\ \E o \in {"ok", "info_fails", "summary_select_fails", "summary_download_fails"} :
         /\ Env(o, "ok")
         /\ o \in {"summary_select_fails", "summary_download_fails"}
              => recStatus = "summarized"
         /\ o = "summary_download_fails" => Len(get_existing_summary(TRUE, TRUE)) > 0
         /\ LET info_ok == o # "info_fails"
                found == recStatus # "absent" /\ info_ok
                existing == get_existing_summary(o # "summary_select_fails",
                                                 o # "summary_download_fails")
            IN /\ trace' = trace \o
                     <<<<"select", "recordings", RecordingId, info_ok>>>> \o
                     (IF already_summarized(info_ok)
                      THEN <<<<"select", "summaries", RecordingId,
                               o # "summary_select_fails">>>> \o
                           (IF Len(rows_of(summaryRows, RecordingId)) > 0
                                 /\ o # "summary_select_fails"
                            THEN <<<<"download", "Summaries", RecordingId,
                                     o # "summary_download_fails">>>>
                            ELSE <<>>)
                      ELSE <<>>)
               /\ IF ~found
                  THEN /\ summarize_result' = sr_error("Recording not found")
                       /\ pc' = "done"
                  ELSE IF already_summarized(info_ok) /\ Len(existing) > 0
                  THEN /\ summarize_result' =
                            [already_existed |-> TRUE] @@
                            sr_success("Summaries already exist for this recording",
                                       existing)
                       /\ pc' = "done"
                  ELSE /\ pc' = "sr_transcription"
                       /\ UNCHANGED summarize_result
    /\ UNCHANGED <<dbVars, nextUuid, clock, entry, calls, scVars, pcrVars,
                   transcription_id, transcription_result>>
    /\ UNCHANGED issued
    /\ UNCHANGED tpVars
    /\ UNCHANGED <<delVars, concVars>>

\* lines 310-368: the transcription rows of the recording, in the order the
\* select of line 311 (no order clause) answers (the select is recorded with
\* the number of rows it returned); none: transcribe first; some: the last one
\* returned, its text, and text processing
summarize_recording_transcription ==
    /\ pc = "sr_transcription"
    /\ \E data \in select_orders(rows_of(transcriptionRows, RecordingId)) :
          \E o \in {"ok", "select_raises", "download_raises"} :
            /\ Env(o, "ok")
            /\ o = "download_raises" => Len(data) > 0
            /\ IF o = "select_raises"
               THEN /\ trace' = Append(trace, <<"select", "transcription", RecordingId>>)
                    /\ summarize_result' = sr_error("Error generating summary")
                    /\ pc' = "done"
                    /\ UNCHANGED <<recStatus, transcription_id>>
               ELSE IF Len(data) = 0
               THEN \* line 316: transcribe_recording
                    /\ trace' = Append(trace, <<"select", "transcription", RecordingId,
                                                Len(data)>>)
                    /\ pc' = "tr_fetch"
                    /\ UNCHANGED <<recStatus, transcription_id, summarize_result>>
               ELSE LET latest == data[Len(data)]
                        path == strip_bucket(latest.transcription_path)
                        downloaded == o = "ok" /\ path \in DOMAIN transcriptionBlobs
                    IN /\ transcription_id' = latest.transcription_id
                       /\ trace' = trace \o
                            <<<<"select", "transcription", RecordingId, Len(data)>>,
                              <<"download", "Transcription", path>>>> \o
                            (IF downloaded
                             THEN <<<<"process_transcription",
                                      trigger_text_processing_args>>>>
                             ELSE <<>>)
                       /\ pc' = "done"
                       /\ IF ~downloaded \/ trigger_text_processing_raises
                          THEN /\ summarize_result' = sr_error("Error generating summary")
                               /\ UNCHANGED recStatus
                          ELSE \* lines 349-368
                               /\ recStatus' = updated_status("summarized")
                               /\ summarize_result' =
                                    sr_success("Summary generation completed successfully",
                                               get_existing_summary(TRUE, TRUE))
    /\ UNCHANGED <<transcriptionRows, transcriptionBlobs, chunkRows, chunkBlobs,
                   summaryRows, summaryBlobs, nextUuid, clock, entry, calls,
                   scVars, pcrVars, transcription_result>>
    /\ UNCHANGED issued
    /\ UNCHANGED tpVars
    /\ UNCHANGED <<delVars, concVars>>

\* lines 318-334: the result of the transcribe_recording call
summarize_recording_after_transcribe ==
    /\ pc = "sr_after_transcribe"
    /\ summarize_result' =
         IF transcription_result.status # "success"
         THEN sr_error("Failed to transcribe recording")
         ELSE sr_success("Transcription and summary generation completed successfully",
                         <<transcription_result>>)
    /\ pc' = "done"
    /\ UNCHANGED <<dbVars, nextUuid, clock, faults, entry, calls, trace, scVars,
                   pcrVars, transcription_id, transcription_result>>
    /\ UNCHANGED issued
    /\ UNCHANGED tpVars
    /\ UNCHANGED <<delVars, concVars>>

\* =========================================================================
\* Initial state and next-state relation
\* =========================================================================
\* What a store_chunks call over the n chunks of the recording, every external
\* call of which succeeded, has left in the tables and buckets, and the number
\* of identifiers and clock readings it took
earlier_run(n) ==
    LET texts == ChunkTexts(n)
        cid(i) == uuid4(i - 1)
        path(i) == chunk_file_path(RecordingId, TranscriptionArg, cid(i))
        sid == uuid4(n)
        cs == [i \in 1..n |->
                 create_chunk_summary_json(
                     cid(i), generate_chunk_summary(texts[i], "ok").value)]
        doc == [summary_id |-> sid] @@
               [recording_id |-> RecordingId,
                created_at |-> 2 * n + 1,
                total_chunks |-> n,
                successful_summaries |-> n,
                failed_summaries |-> 0,
                chunk_summaries |-> chunk_summaries_dict(cs),
                consolidated_summary |->
                    synthesize_chunk_summaries_to_consolidated("json")]
    IN [chunkBlobs |->
            [p \in {path(i) : i \in 1..n} |->
                LET i == CHOOSE j \in 1..n : path(j) = p
                IN chunk_payload(cid(i), RecordingId, TranscriptionArg,
                                 texts[i], i - 1, n, 2 * i - 1)],
        chunkRows |->
            [i \in 1..n |-> chunk_metadata(cid(i), chunk_path(path(i)),
                                           RecordingId, UserId, 2 * i)],
        summaryBlobs |-> (summary_file_path(sid) :> doc),
        summaryRows |->
            <<summary_metadata(sid, RecordingId,
                               summary_path_of(summary_file_path(sid)),
                               2 * n + 2)>>,
        nextUuid |-> n + 1,
        issued |-> {uuid4(k) : k \in 0..n},
        clock |-> 2 * n + 2]

\* The stores are empty, or, for a recording marked summarized, they hold what
\* an earlier store_chunks call over its chunks persisted.
Init ==
    /\ recStatus \in InitialStatuses
    /\ chunks \in {ChunkTexts(n) : n \in 0..MaxChunks}
    /\ transcriptionRows = <<>>
    /\ transcriptionBlobs = <<>>
    /\ \E persisted \in BOOLEAN :
         /\ persisted => (recStatus = "summarized" /\ Len(chunks) > 0)
         /\ chunkRows = IF persisted THEN earlier_run(Len(chunks)).chunkRows ELSE <<>>
         /\ chunkBlobs = IF persisted THEN earlier_run(Len(chunks)).chunkBlobs ELSE <<>>
         /\ summaryRows = IF persisted THEN earlier_run(Len(chunks)).summaryRows ELSE <<>>
         /\ summaryBlobs = IF persisted THEN earlier_run(Len(chunks)).summaryBlobs ELSE <<>>
         /\ nextUuid = IF persisted THEN earlier_run(Len(chunks)).nextUuid ELSE 0
         /\ issued = IF persisted THEN earlier_run(Len(chunks)).issued ELSE {}
         /\ clock = IF persisted THEN earlier_run(Len(chunks)).clock ELSE 0
    /\ faults = 0
    /\ pc = "idle"
    /\ entry = NoneVal
    /\ calls = 0
    /\ trace = <<>>
    /\ chunk_ids = <<>>
    /\ sc_i = 0
    /\ store_result = NoneVal
    /\ chunk_data = <<>>
    /\ pcr_i = 0
    /\ chunk_summaries = <<>>
    /\ successful_summaries = 0
    /\ failed_summaries = 0
    /\ unified_output = <<>>
    /\ summary_result = NoneVal
    /\ transcription_id = NoneVal
    /\ transcription_result = NoneVal
    /\ summarize_result = NoneVal
    /\ input_text = <<>>
    /\ chunk_size_tokens = 1
    /\ chunk_overlap_tokens = 0
    /\ cleaned_text = <<>>
    /\ text_chunks = <<>>
    /\ audioStored = TRUE
    /\ recording_file_path = <<RecordingId>>
    /\ storage_errors = <<>>
    /\ delete_response = NoneVal
    /\ run_pc = <<>>
    /\ run_locals = <<>>

Next ==
    \/ store_chunks_invoke
    \/ store_chunks_upload
    \/ store_chunks_insert
    \/ trigger_ai_summarization
    \/ store_chunks_return
    \/ process_chunks_begin
    \/ process_chunks_chunk
    \/ process_chunks_consolidate
    \/ store_unified_summary_upload
    \/ store_unified_summary_insert
    \/ transcribe_recording_invoke
    \/ transcribe_recording_fetch
    \/ transcribe_audio_content
    \/ update_recording_transcription_upload
    \/ update_recording_transcription_insert
    \/ update_recording_transcription_status
    \/ transcribe_recording_trigger
    \/ transcribe_recording_except
    \/ summarize_recording_invoke
    \/ summarize_recording_begin
    \/ summarize_recording_transcription
    \/ summarize_recording_after_transcribe

Spec == Init /\ [][Next]_vars

\* =========================================================================
\* A recording that was transcribed before
\* =========================================================================
\* What n transcribe_recording calls for the recording, every external call of
\* which succeeded, have left behind when `first` identifiers were handed out
\* before them: one transcription row per call, the
\* transcript at the one path of the recording, and status 'error' (each call
\* ends in the except clause of line 92, see trigger_text_processing_raises)
earlier_transcriptions(n, first) ==
    [transcriptionRows |->
         [k \in 1..n |->
             [transcription_id |-> uuid4(first + k - 1), recording_id |-> RecordingId,
              user_id |-> UserId,
              transcription_path |-> transcription_full_path(RecordingId)]],
     transcriptionBlobs |->
         IF n = 0 THEN <<>>
         ELSE (transcription_object_path(RecordingId) :> "transcript"),
     recStatus |-> IF n = 0 THEN "recorded" ELSE "error",
     nextUuid |-> first + n,
     issued |-> {uuid4(first + k - 1) : k \in 1..n},
     clock |-> 3 * n]

\* The recording exists and was transcribed up to MaxTranscriptions times;
\* nothing was chunked or summarized yet.
RetranscribedInit ==
    /\ chunks \in {ChunkTexts(n) : n \in 0..MaxChunks}
    /\ \E n \in 0..MaxTranscriptions :
         /\ recStatus = earlier_transcriptions(n, 0).recStatus
         /\ transcriptionRows = earlier_transcriptions(n, 0).transcriptionRows
         /\ transcriptionBlobs = earlier_transcriptions(n, 0).transcriptionBlobs
         /\ nextUuid = earlier_transcriptions(n, 0).nextUuid
         /\ issued = earlier_transcriptions(n, 0).issued
         /\ clock = earlier_transcriptions(n, 0).clock
    /\ chunkRows = <<>>
    /\ chunkBlobs = <<>>
    /\ summaryRows = <<>>
    /\ summaryBlobs = <<>>
    /\ faults = 0
    /\ pc = "idle"
    /\ entry = NoneVal
    /\ calls = 0
    /\ trace = <<>>
    /\ chunk_ids = <<>>
    /\ sc_i = 0
    /\ store_result = NoneVal
    /\ chunk_data = <<>>
    /\ pcr_i = 0
    /\ chunk_summaries = <<>>
    /\ successful_summaries = 0
    /\ failed_summaries = 0
    /\ unified_output = <<>>
    /\ summary_result = NoneVal
    /\ transcription_id = NoneVal
    /\ transcription_result = NoneVal
    /\ summarize_result = NoneVal
    /\ input_text = <<>>
    /\ chunk_size_tokens = 1
    /\ chunk_overlap_tokens = 0
    /\ cleaned_text = <<>>
    /\ text_chunks = <<>>
    /\ audioStored = TRUE
    /\ recording_file_path = <<RecordingId>>
    /\ storage_errors = <<>>
    /\ delete_response = NoneVal
    /\ run_pc = <<>>
    /\ run_locals = <<>>

RetranscribedSpec == RetranscribedInit /\ [][Next]_vars

\* =========================================================================
\* main.py : delete_recording
\* =========================================================================
\* HTTPException(status_code=..., detail=...)
HTTPException(code, detail) == [status_code |-> code, detail |-> detail]

\* .delete().eq('recording_id', rid): the rows of the recording are gone
delete_rows(rows, rid) == SelectSeq(rows, LAMBDA r : r.recording_id # rid)

\* bucket.list(f"{rid}/"): the names directly under the folder of the recording
\* (a file name, or the name of a sub-folder)
list_folder(bucket, rid) ==
    {p[2] : p \in {q \in DOMAIN bucket : Len(q) >= 2 /\ q[1] = rid}}
\* [f"{rid}/{file['name']}" for file in files]
file_paths(rid, names) == {<<rid, name>> : name \in names}
\* bucket.remove(paths): the objects stored at exactly these paths are gone
remove_files(bucket, paths) ==
    IF DOMAIN bucket \subseteq paths THEN <<>>
    ELSE [p \in DOMAIN bucket \ paths |-> bucket[p]]

\* steps 1-4 with the try/except left out: an error of a clean-up step
\* reaches the except clause of line 393
cleanup_error_propagates_always(o) == o # "ok"
\* lines 300-368: every clean-up step catches its own exception
cleanup_error_propagates(o) == FALSE

\* where delete_recording goes after a clean-up step with outcome o, and its
\* answer: an error that propagated is answered with 500 (lines 393-395)
del_next(o, next) ==
    IF cleanup_error_propagates(o)
    THEN [pc |-> "done",
          response |-> HTTPException(500, "Failed to delete recording")]
    ELSE [pc |-> next, response |-> delete_response]

delete_recording_invoke ==
    /\ pc \in {"idle", "done", "raised"}
    /\ calls < MaxCalls
    /\ calls' = calls + 1
    /\ entry' = "delete_recording"
    /\ pc' = "del_fetch"
    /\ FreshLocals("delete_recording")
    /\ storage_errors' = <<>>
    /\ delete_response' = NoneVal
    /\ UNCHANGED <<dbVars, nextUuid, issued, clock, faults, chunks, tpVars,
                   audioStored, recording_file_path, concVars>>

\* lines 290-295: the service and the recording row; 404 without the row
delete_recording_fetch ==
    /\ pc = "del_fetch"
    /\ \E o \in {"ok", "service_fails", "info_fails"} :
         /\ Env(o, "ok")
         /\ IF o = "service_fails"
            THEN /\ delete_response' =
                      HTTPException(500, "Service initialization failed")
                 /\ pc' = "done"
                 /\ UNCHANGED trace
            ELSE /\ trace' = Append(trace, <<"select", "recordings", RecordingId,
                                             o = "ok">>)
                 /\ IF recStatus = "absent" \/ o = "info_fails"
                    THEN /\ delete_response' = HTTPException(404, "not found")
                         /\ pc' = "done"
                    ELSE /\ pc' = "del_summaries"
                         /\ UNCHANGED delete_response
    /\ UNCHANGED <<dbVars, nextUuid, issued, clock, entry, calls, scVars, pcrVars,
                   trVars, tpVars, audioStored, recording_file_path, storage_errors, concVars>>

\* lines 300-305, step 1: the summaries rows
delete_recording_summaries ==
    /\ pc = "del_summaries"
    /\ \E o \in {"ok", "error"} :
         /\ Env(o, "ok")
         /\ trace' = Append(trace, <<"delete", "summaries", o>>)
         /\ summaryRows' = IF o = "ok" THEN delete_rows(summaryRows, RecordingId)
                           ELSE summaryRows
         /\ pc' = del_next(o, "del_chunks").pc
         /\ delete_response' = del_next(o, "del_chunks").response
    /\ UNCHANGED <<recStatus, transcriptionRows, transcriptionBlobs, chunkRows,
                   chunkBlobs, summaryBlobs, nextUuid, issued, clock, entry,
                   calls, scVars, pcrVars, trVars, tpVars, audioStored, recording_file_path, storage_errors,
                   concVars>>

\* lines 307-312, step 2: the chunk rows
delete_recording_chunks ==
    /\ pc = "del_chunks"
    /\ \E o \in {"ok", "error"} :
         /\ Env(o, "ok")
         /\ trace' = Append(trace, <<"delete", "chunk", o>>)
         /\ chunkRows' = IF o = "ok" THEN delete_rows(chunkRows, RecordingId)
                         ELSE chunkRows
         /\ pc' = del_next(o, "del_transcriptions").pc
         /\ delete_response' = del_next(o, "del_transcriptions").response
    /\ UNCHANGED <<recStatus, transcriptionRows, transcriptionBlobs, chunkBlobs,
                   summaryRows, summaryBlobs, nextUuid, issued, clock, entry,
                   calls, scVars, pcrVars, trVars, tpVars, audioStored, recording_file_path, storage_errors,
                   concVars>>

\* lines 314-319, step 3: the transcription rows
delete_recording_transcriptions ==
    /\ pc = "del_transcriptions"
    /\ \E o \in {"ok", "error"} :
         /\ Env(o, "ok")
         /\ trace' = Append(trace, <<"delete", "transcription", o>>)
         /\ transcriptionRows' =
              IF o = "ok" THEN delete_rows(transcriptionRows, RecordingId)
              ELSE transcriptionRows
         /\ pc' = del_next(o, "del_transcription_files").pc
         /\ delete_response' = del_next(o, "del_transcription_files").response
    /\ UNCHANGED <<recStatus, transcriptionBlobs, chunkRows, chunkBlobs,
                   summaryRows, summaryBlobs, nextUuid, issued, clock, entry,
                   calls, scVars, pcrVars, trVars, tpVars, audioStored, recording_file_path, storage_errors,
                   concVars>>

\* the events of listing a folder and, when it is not empty, removing what was
\* listed
list_remove_events(bucket_name, paths, o) ==
    <<<<"list", bucket_name, o # "list_fails">>>> \o
    (IF o # "list_fails" /\ paths # {}
     THEN <<<<"remove", bucket_name, paths, o = "ok">>>> ELSE <<>>)

\* lines 324-332, step 4: the files of the recording in bucket Transcription
delete_recording_transcription_files ==
    /\ pc = "del_transcription_files"
    /\ LET paths == file_paths(RecordingId,
                               list_folder(transcriptionBlobs, RecordingId))
       IN \E o \in {"ok", "list_fails", "remove_fails"} :
            /\ Env(o, "ok")
            /\ o = "remove_fails" => paths # {}
            /\ trace' = trace \o list_remove_events("Transcription", paths, o)
            /\ transcriptionBlobs' =
                 IF o = "ok" THEN remove_files(transcriptionBlobs, paths)
                 ELSE transcriptionBlobs
            /\ storage_errors' =
                 IF o = "ok" THEN storage_errors
                 ELSE Append(storage_errors, "Transcription storage")
            /\ pc' = del_next(o, "del_chunk_files").pc
            /\ delete_response' = del_next(o, "del_chunk_files").response
    /\ UNCHANGED <<recStatus, transcriptionRows, chunkRows, chunkBlobs,
                   summaryRows, summaryBlobs, nextUuid, issued, clock, entry,
                   calls, scVars, pcrVars, trVars, tpVars, audioStored, recording_file_path,
                   concVars>>

\* lines 334-342: what is listed under the recording's folder in bucket Chunks
\* (store_chunks writes below a sub-folder per transcription, so the names
\* listed are those of sub-folders)
delete_recording_chunk_files ==
    /\ pc = "del_chunk_files"
    /\ LET paths == file_paths(RecordingId, list_folder(chunkBlobs, RecordingId))
       IN \E o \in {"ok", "list_fails", "remove_fails"} :
            /\ Env(o, "ok")
            /\ o = "remove_fails" => paths # {}
            /\ trace' = trace \o list_remove_events("Chunks", paths, o)
            /\ chunkBlobs' = IF o = "ok" THEN remove_files(chunkBlobs, paths)
                             ELSE chunkBlobs
            /\ storage_errors' =
                 IF o = "ok" THEN storage_errors
                 ELSE Append(storage_errors, "Chunks storage")
            /\ pc' = del_next(o, "del_summary_files").pc
            /\ delete_response' = del_next(o, "del_summary_files").response
    /\ UNCHANGED <<recStatus, transcriptionRows, transcriptionBlobs, chunkRows,
                   summaryRows, summaryBlobs, nextUuid, issued, clock, entry,
                   calls, scVars, pcrVars, trVars, tpVars, audioStored, recording_file_path,
                   concVars>>

\* lines 344-354: bucket Summaries is listed and nothing in it is removed
delete_recording_summary_files ==
    /\ pc = "del_summary_files"
    /\ \E o \in {"ok", "list_fails"} :
         /\ Env(o, "ok")
         /\ trace' = trace \o list_remove_events("Summaries", {}, o)
         /\ storage_errors' =
              IF o = "ok" THEN storage_errors
              ELSE Append(storage_errors, "Summaries storage")
         /\ pc' = del_next(o, "del_audio").pc
         /\ delete_response' = del_next(o, "del_audio").response
    /\ UNCHANGED <<dbVars, nextUuid, issued, clock, entry, calls, scVars, pcrVars,
                   trVars, tpVars, audioStored, recording_file_path, concVars>>

\* lines 356-367: the audio file in bucket recordings, removed only when the
\* recordings row names a file_path
delete_recording_audio ==
    /\ pc = "del_audio"
    /\ IF Len(recording_file_path) = 0
       THEN /\ pc' = "del_row"
            /\ UNCHANGED <<trace, faults, audioStored, storage_errors,
                           delete_response>>
       ELSE \E o \in {"ok", "error"} :
              /\ Env(o, "ok")
              /\ trace' = Append(trace, <<"remove", "recordings",
                                          {recording_file_path[1]}, o = "ok">>)
              /\ audioStored' = IF o = "ok" THEN FALSE ELSE audioStored
              /\ storage_errors' =
                   IF o = "ok" THEN storage_errors
                   ELSE Append(storage_errors, "Main audio file")
              /\ pc' = del_next(o, "del_row").pc
              /\ delete_response' = del_next(o, "del_row").response
    /\ UNCHANGED <<dbVars, nextUuid, issued, clock, entry, calls, scVars, pcrVars,
                   trVars, tpVars, concVars, recording_file_path>>

\* lines 369-389, step 5: the recording row, then the answer
delete_recording_row ==
    /\ pc = "del_row"
    /\ \E o \in {"ok", "no_data", "error"} :
         /\ Env(o, "ok")
         /\ trace' = Append(trace, <<"delete", "recordings", o>>)
         /\ IF o = "ok"
            THEN /\ recStatus' = "absent"
                 /\ clock' = clock + 1
                 /\ delete_response' =
                      (IF Len(storage_errors) > 0
                       THEN [storage_warnings |-> storage_errors]
                       ELSE <<>>) @@
                      [status_code |-> 200, status |-> "success",
                       recording_id |-> RecordingId, timestamp |-> clock + 1]
            ELSE /\ delete_response' =
                      HTTPException(500, IF o = "no_data"
                                         THEN "Failed to delete recording from database"
                                         ELSE "Failed to delete recording")
                 /\ UNCHANGED <<recStatus, clock>>
    /\ pc' = "done"
    /\ UNCHANGED <<transcriptionRows, transcriptionBlobs, chunkRows, chunkBlobs,
                   summaryRows, summaryBlobs, nextUuid, issued, entry, calls,
                   scVars, pcrVars, trVars, tpVars, audioStored, recording_file_path, storage_errors,
                   concVars>>

\* The recording is unknown or known, with an audio file or without, and the
\* stores hold what an earlier store_chunks call and earlier
\* transcribe_recording calls persisted.
DeleteInit ==
    /\ recStatus \in InitialStatuses \cup {"error"}
    /\ audioStored \in BOOLEAN
    /\ recording_file_path \in {<<>>, <<RecordingId>>}
    /\ chunks \in {ChunkTexts(n) : n \in 0..MaxChunks}
    /\ \E t \in 0..MaxTranscriptions :
         LET n == Len(chunks)
             stored == earlier_run(n)
             first == IF n > 0 THEN stored.nextUuid ELSE 0
             transcribed == earlier_transcriptions(t, first)
         IN /\ chunkRows = IF n > 0 THEN stored.chunkRows ELSE <<>>
            /\ chunkBlobs = IF n > 0 THEN stored.chunkBlobs ELSE <<>>
            /\ summaryRows = IF n > 0 THEN stored.summaryRows ELSE <<>>
            /\ summaryBlobs = IF n > 0 THEN stored.summaryBlobs ELSE <<>>
            /\ transcriptionRows = transcribed.transcriptionRows
            /\ transcriptionBlobs = transcribed.transcriptionBlobs
            /\ nextUuid = transcribed.nextUuid
            /\ issued = transcribed.issued \cup (IF n > 0 THEN stored.issued ELSE {})
            /\ clock = transcribed.clock + (IF n > 0 THEN stored.clock ELSE 0)
    /\ faults = 0
    /\ pc = "idle"
    /\ entry = NoneVal
    /\ calls = 0
    /\ trace = <<>>
    /\ chunk_ids = <<>>
    /\ sc_i = 0
    /\ store_result = NoneVal
    /\ chunk_data = <<>>
    /\ pcr_i = 0
    /\ chunk_summaries = <<>>
    /\ successful_summaries = 0
    /\ failed_summaries = 0
    /\ unified_output = <<>>
    /\ summary_result = NoneVal
    /\ transcription_id = NoneVal
    /\ transcription_result = NoneVal
    /\ summarize_result = NoneVal
    /\ input_text = <<>>
    /\ chunk_size_tokens = 1
    /\ chunk_overlap_tokens = 0
    /\ cleaned_text = <<>>
    /\ text_chunks = <<>>
    /\ storage_errors = <<>>
    /\ delete_response = NoneVal
    /\ run_pc = <<>>
    /\ run_locals = <<>>

DeleteNext ==
    \/ delete_recording_invoke
    \/ delete_recording_fetch
    \/ delete_recording_summaries
    \/ delete_recording_chunks
    \/ delete_recording_transcriptions
    \/ delete_recording_transcription_files
    \/ delete_recording_chunk_files
    \/ delete_recording_summary_files
    \/ delete_recording_audio
    \/ delete_recording_row

DeleteSpec == DeleteInit /\ [][DeleteNext]_vars

\* delete_recording called for a recording that, if its status is summarized,
\* has the chunks and the unified summary of an earlier store_chunks call
SummarizedInit ==
    /\ DeleteInit
    /\ recStatus = "summarized" => Len(chunks) > 0

SummarizedSpec == SummarizedInit /\ [][DeleteNext]_vars

\* =========================================================================
\* Two concurrent runs of process_chunks_for_recording for one recording
\* =========================================================================
\* Each store_chunks call of the recording ends in its own call of
\* process_chunks_for_recording (chunk_storage_service.py:139) with the chunk
\* list it stored. The two calls share the tables, the buckets, the clock and
\* the identifier source and nothing else: the service objects hold no state
\* that a run writes. A step of a run is one external call with the local
\* computation up to the next; the steps of the two runs interleave freely.
Runs == 1..2

\* summary_id = str(uuid.uuid4()) replaced by one id per recording
new_summary_id_per_recording(n) == uuid4(0)
\* summary_id = str(uuid.uuid4())  (ai_summary_service.py:383)
new_summary_id(n) == uuid4(n)

\* run r moves to pc `to` with the locals in `changed` assigned
run_step(r, to, changed) ==
    /\ run_pc' = [run_pc EXCEPT ![r] = to]
    /\ run_locals' = [run_locals EXCEPT ![r] = changed @@ run_locals[r]]

\* lines 52-65 in run r
run_process_chunks_begin(r) ==
    /\ run_pc[r] = "pcr_begin"
    /\ LET l == run_locals[r]
       IN IF IsEmptyList(l.chunk_data)
          THEN run_step(r, "done",
                   [summary_result |->
                        pcr_error("No chunks provided for summarization")])
          ELSE run_step(r, "pcr_chunk", [pcr_i |-> 0])
    /\ UNCHANGED <<dbVars, nextUuid, issued, clock, faults, pc, entry, calls,
                   trace, scVars, pcrVars, trVars, tpVars, delVars>>

\* lines 67-82 in run r: one iteration of the loop over chunk_data
run_process_chunks_chunk(r) ==
    /\ run_pc[r] = "pcr_chunk"
    /\ LET l == run_locals[r]
           cid == l.chunk_data[l.pcr_i + 1][1]
           text == l.chunk_data[l.pcr_i + 1][2]
       IN \E o \in ChunkCallOutcomes :
            /\ Env(o, "ok")
            /\ trace' = Append(trace, <<"chat_chunk", cid, text, o, r>>)
            /\ LET after == loop_body(l.chunk_summaries, l.successful_summaries,
                                      l.failed_summaries, cid,
                                      generate_chunk_summary(text, o))
               IN run_step(r,
                      IF l.pcr_i + 1 < Len(l.chunk_data) THEN "pcr_chunk"
                      ELSE "pcr_consolidate",
                      [pcr_i |-> l.pcr_i + 1,
                       chunk_summaries |-> after.chunk_summaries,
                       successful_summaries |-> after.successful,
                       failed_summaries |-> after.failed])
    /\ UNCHANGED <<dbVars, nextUuid, issued, clock, pc, entry, calls, scVars,
                   pcrVars, trVars, tpVars, delVars>>

\* lines 84-121 in run r: the consolidation call and the unified output
run_process_chunks_consolidate(r) ==
    /\ run_pc[r] = "pcr_consolidate"
    /\ LET l == run_locals[r]
       IN IF IsEmptyList(l.chunk_summaries)
          THEN /\ run_step(r, "done",
                      [summary_result |->
                           pcr_error("Failed to generate any chunk summaries")])
               /\ UNCHANGED <<trace, clock, faults>>
          ELSE /\ clock' = clock + 1
               /\ \E o \in ConsolidationOutcomes :
                    /\ Env(o, "json")
                    /\ trace' = Append(trace,
                           <<"chat_consolidate",
                             consolidated_input(l.chunk_summaries), o, r>>)
                    /\ IF consolidation_error_propagates(o)
                       THEN run_step(r, "done",
                                [summary_result |->
                                     pcr_error("Error in summarization process")])
                       ELSE run_step(r, "pcr_upload",
                                [unified_output |->
                                   <<[recording_id |-> RecordingId,
                                      created_at |-> clock + 1,
                                      total_chunks |-> Len(l.chunk_data),
                                      successful_summaries |->
                                          l.successful_summaries,
                                      failed_summaries |-> l.failed_summaries,
                                      chunk_summaries |->
                                          chunk_summaries_dict(l.chunk_summaries),
                                      consolidated_summary |->
                                          synthesize_chunk_summaries_to_consolidated(o)]>>])
    /\ UNCHANGED <<dbVars, nextUuid, issued, pc, entry, calls, scVars, pcrVars,
                   trVars, tpVars, delVars>>

\* lines 409-416 in run r, after the blob was written: the row to insert, with
\* created_at read from the clock now
run_summary_metadata(doc, now) ==
    [unified_output |-> <<doc>>,
     summary_metadata |->
         <<summary_metadata(doc.summary_id, RecordingId,
                            summary_path_of(summary_file_path(doc.summary_id)),
                            now)>>]

\* _store_unified_summary_with_metadata, lines 380-396, in run r: a fresh
\* summary id and the upload of the JSON document to bucket Summaries; an
\* upload answered "already exists" is followed by an update, another call
run_store_unified_summary_upload(r) ==
    /\ run_pc[r] = "pcr_upload"
    /\ LET l == run_locals[r]
           sid == new_summary_id(nextUuid)
           path == summary_file_path(sid)
           doc == [summary_id |-> sid] @@ l.unified_output[1]
       IN /\ nextUuid' = nextUuid + 1
          /\ issued' = issued \cup {sid}
          /\ \E o \in {"ok", "exists", "error"} :
               /\ Env(o, "ok")
               /\ trace' = Append(trace, <<"upload", "Summaries", path, o, r>>)
               /\ CASE o = "ok" ->
                        /\ summaryBlobs' = Put(summaryBlobs, path, doc)
                        /\ clock' = clock + 1
                        /\ run_step(r, "pcr_insert",
                                    run_summary_metadata(doc, clock + 1))
                   [] o = "exists" ->
                        /\ run_step(r, "pcr_update", [unified_output |-> <<doc>>])
                        /\ UNCHANGED <<summaryBlobs, clock>>
                   [] o = "error" ->
                        \* raise -> line 438 -> raise -> line 148
                        /\ run_step(r, "done",
                               [unified_output |-> <<doc>>,
                                summary_result |->
                                    pcr_error("Error in summarization process")])
                        /\ UNCHANGED <<summaryBlobs, clock>>
    /\ UNCHANGED <<recStatus, transcriptionRows, transcriptionBlobs, chunkRows,
                   chunkBlobs, summaryRows, pc, entry, calls, scVars,
                   pcrVars, trVars, tpVars, delVars>>

\* lines 397-405 in run r: the update of the blob after "already exists"
run_store_unified_summary_update(r) ==
    /\ run_pc[r] = "pcr_update"
    /\ LET l == run_locals[r]
           doc == l.unified_output[1]
           path == summary_file_path(doc.summary_id)
       IN \E o \in {"ok", "error"} :
            /\ Env(o, "ok")
            /\ trace' = Append(trace, <<"update", "Summaries", path, o, r>>)
            /\ IF o = "ok"
               THEN /\ summaryBlobs' = Put(summaryBlobs, path, doc)
                    /\ clock' = clock + 1
                    /\ run_step(r, "pcr_insert",
                                run_summary_metadata(doc, clock + 1))
               ELSE /\ run_step(r, "done",
                           [summary_result |->
                                pcr_error("Error in summarization process")])
                    /\ UNCHANGED <<summaryBlobs, clock>>
    /\ UNCHANGED <<recStatus, transcriptionRows, transcriptionBlobs, chunkRows,
                   chunkBlobs, summaryRows, nextUuid, issued, pc, entry, calls,
                   scVars, pcrVars, trVars, tpVars, delVars>>

\* lines 434-437, then lines 126-146, in run r: the return value
run_result(l) ==
    [status |-> overall_status(l.successful_summaries, l.failed_summaries),
     message |-> <<l.successful_summaries, l.failed_summaries>>,
     recording_id |-> RecordingId,
     unified_summary |-> l.unified_output[1],
     summary_id |-> l.summary_metadata[1].summary_id,
     summary_path |-> l.summary_metadata[1].summary_path]

\* lines 418-423 in run r: the insert of the summaries row; an insert that
\* raises (with the row written or not) is followed by a select, another call
run_store_unified_summary_insert(r) ==
    /\ run_pc[r] = "pcr_insert"
    /\ LET l == run_locals[r]
           row == l.summary_metadata[1]
       IN \E o \in {"ok", "no_data", "raise_landed", "raise"} :
            /\ Env(o, "ok")
            /\ trace' = Append(trace, <<"insert", "summaries", row.summary_id,
                                        o, r>>)
            /\ summaryRows' = IF o \in {"ok", "raise_landed"}
                              THEN Append(summaryRows, row) ELSE summaryRows
            /\ IF o \in {"ok", "no_data"}
               THEN run_step(r, "done", [summary_result |-> run_result(l)])
               ELSE run_step(r, "pcr_select", [pcr_i |-> l.pcr_i])
    /\ UNCHANGED <<recStatus, transcriptionRows, transcriptionBlobs, chunkRows,
                   chunkBlobs, summaryBlobs, nextUuid, issued, clock, pc, entry,
                   calls, scVars, pcrVars, trVars, tpVars, delVars>>

\* lines 424-433 in run r: the select by summary_id after a raising insert;
\* found or not, the run returns its result; a raising select ends the run
\* through lines 438-440 and 148-154
run_store_unified_summary_select(r) ==
    /\ run_pc[r] = "pcr_select"
    /\ LET l == run_locals[r]
           sid == l.summary_metadata[1].summary_id
       IN \E o \in {"ok", "error"} :
            /\ Env(o, "ok")
            /\ trace' = Append(trace, <<"select", "summaries", sid, o, r>>)
            /\ run_step(r, "done",
                  [summary_result |->
                      IF o = "ok" THEN run_result(l)
                      ELSE pcr_error("Error in summarization process")])
    /\ UNCHANGED <<dbVars, nextUuid, issued, clock, pc, entry, calls, scVars,
                   pcrVars, trVars, tpVars, delVars>>

\* Both store_chunks calls have stored their chunks; both are at their call of
\* process_chunks_for_recording, each with the texts of the recording under the
\* chunk ids its store_chunks call drew (run 1 the first n, run 2 the next n).
ConcInit ==
    /\ recStatus = "recorded"
    /\ chunks \in {ChunkTexts(n) : n \in 0..MaxRunChunks}
    /\ transcriptionRows = <<>>
    /\ transcriptionBlobs = <<>>
    /\ LET n == Len(chunks)
           cid(k) == uuid4(k - 1)
           text(k) == chunks[((k - 1) % n) + 1]
           path(k) == chunk_file_path(RecordingId, TranscriptionArg, cid(k))
       IN /\ chunkBlobs =
                [p \in {path(k) : k \in 1..(2 * n)} |->
                    LET k == CHOOSE j \in 1..(2 * n) : path(j) = p
                    IN chunk_payload(cid(k), RecordingId, TranscriptionArg,
                                     text(k), (k - 1) % n, n, 2 * k - 1)]
          /\ chunkRows =
                [k \in 1..(2 * n) |->
                    chunk_metadata(cid(k), chunk_path(path(k)), RecordingId,
                                   UserId, 2 * k)]
          /\ nextUuid = 2 * n
          /\ issued = {uuid4(k) : k \in 0..(2 * n - 1)}
          /\ clock = 4 * n
          /\ run_pc = [r \in Runs |-> "pcr_begin"]
          /\ run_locals =
                [r \in Runs |->
                    [chunk_data |->
                         zip([i \in 1..n |-> uuid4((r - 1) * n + i - 1)],
                             ChunkTexts(n)),
                     pcr_i |-> 0,
                     chunk_summaries |-> <<>>, successful_summaries |-> 0,
                     failed_summaries |-> 0, unified_output |-> <<>>,
                     summary_metadata |-> <<>>, summary_result |-> NoneVal]]
    /\ summaryRows = <<>>
    /\ summaryBlobs = <<>>
    /\ faults = 0
    /\ pc = "idle"
    /\ entry = NoneVal
    /\ calls = 0
    /\ trace = <<>>
    /\ chunk_ids = <<>>
    /\ sc_i = 0
    /\ store_result = NoneVal
    /\ chunk_data = <<>>
    /\ pcr_i = 0
    /\ chunk_summaries = <<>>
    /\ successful_summaries = 0
    /\ failed_summaries = 0
    /\ unified_output = <<>>
    /\ summary_result = NoneVal
    /\ transcription_id = NoneVal
    /\ transcription_result = NoneVal
    /\ summarize_result = NoneVal
    /\ input_text = <<>>
    /\ chunk_size_tokens = 1
    /\ chunk_overlap_tokens = 0
    /\ cleaned_text = <<>>
    /\ text_chunks = <<>>
    /\ audioStored = TRUE
    /\ recording_file_path = <<RecordingId>>
    /\ storage_errors = <<>>
    /\ delete_response = NoneVal

ConcNext ==
    \E r \in Runs :
        \/ run_process_chunks_begin(r)
        \/ run_process_chunks_chunk(r)
        \/ run_process_chunks_consolidate(r)
        \/ run_store_unified_summary_upload(r)
        \/ run_store_unified_summary_update(r)
        \/ run_store_unified_summary_insert(r)
        \/ run_store_unified_summary_select(r)

ConcSpec == ConcInit /\ [][ConcNext]_vars

\* =========================================================================
\* text_processing.py : preprocess_and_chunk_text
\* =========================================================================
\* The characters of the transcripts tried: a lowercase letter, an uppercase
\* letter, two whitespace characters and a sentence end.
Alphabet == {"a", "B", " ", "\n", "."}
\* Longest transcript tried, in characters.
MaxTextLen == 5
Texts == UNION {[1..n -> Alphabet] : n \in 0..MaxTextLen}
\* The (chunk_size_tokens, chunk_overlap_tokens) pairs tried: positive sizes
\* with an overlap within the size, as every caller passes (2000 and 200).
TokenBudgets == {<<1, 0>>, <<1, 1>>}

\* str.isspace(), the class \s of re
isspace(c) == c \in {" ", "\n"}

\* re.sub(r'\s+', ' ', text): every maximal run of whitespace becomes one space
RECURSIVE sub_whitespace_runs(_)
sub_whitespace_runs(t) ==
    IF Len(t) = 0 THEN <<>>
    ELSE IF isspace(t[1])
    THEN IF Len(t) > 1 /\ isspace(t[2])
         THEN sub_whitespace_runs(Tail(t))
         ELSE <<" ">> \o sub_whitespace_runs(Tail(t))
    ELSE <<t[1]>> \o sub_whitespace_runs(Tail(t))

\* str.strip()
RECURSIVE lstrip(_)
lstrip(t) == IF Len(t) > 0 /\ isspace(t[1]) THEN lstrip(Tail(t)) ELSE t
RECURSIVE rstrip(_)
rstrip(t) == IF Len(t) > 0 /\ isspace(t[Len(t)])
             THEN rstrip(SubSeq(t, 1, Len(t) - 1)) ELSE t
strip(t) == rstrip(lstrip(t))

\* str.lower()
lower_char(c) == IF c = "B" THEN "b" ELSE c
lower(t) == [i \in 1..Len(t) |-> lower_char(t[i])]

\* lines 46-51 without the strip of line 48
clean_and_normalize_text_unstripped(t) == lower(sub_whitespace_runs(t))
\* _clean_and_normalize_text, lines 43-51
clean_and_normalize_text(t) == lower(strip(sub_whitespace_runs(t)))

\* line 64 with five characters to the token
chunk_size_chars_by_five(tokens) == tokens * 5
\* line 64: chunk_size_chars = chunk_size_tokens * 4
chunk_size_chars(tokens) == tokens * 4
\* line 65: chunk_overlap_chars = chunk_overlap_tokens * 4
chunk_overlap_chars(tokens) == tokens * 4

\* line 71: the separator hierarchy, each separator a sequence of characters
separators == << <<"\n", "\n">>, <<"\n">>, <<".">>, <<"!">>, <<"?">>, <<",">>,
                 <<" ">>, <<>> >>

\* lines 68-72 passing keep_separator=False
keep_separator_off == FALSE
\* lines 68-72 pass no keep_separator: RecursiveCharacterTextSplitter keeps
\* each separator, at the start of the piece that follows it
keep_separator == TRUE

\* t begins with sep
StartsWith(t, sep) == Len(sep) <= Len(t) /\ SubSeq(t, 1, Len(sep)) = sep
\* re.search(re.escape(sep), t)
occurs_in(sep, t) ==
    \E i \in 1..(Len(t) - Len(sep) + 1) : SubSeq(t, i, i + Len(sep) - 1) = sep

\* re.split at the occurrences of sep, left to right: `cur` is the piece being
\* read, `acc` the pieces read; a kept separator starts the next piece
RECURSIVE re_split(_, _, _, _, _)
re_split(rest, sep, keep, cur, acc) ==
    IF Len(rest) = 0 THEN Append(acc, cur)
    ELSE IF StartsWith(rest, sep)
    THEN re_split(SubSeq(rest, Len(sep) + 1, Len(rest)), sep, keep,
                  IF keep THEN sep ELSE <<>>, Append(acc, cur))
    ELSE re_split(Tail(rest), sep, keep, Append(cur, rest[1]), acc)

\* _split_text_with_regex: the pieces between the separators, or the single
\* characters for the separator ""; empty pieces are dropped
split_text_with_regex(t, sep, keep) ==
    IF Len(sep) > 0
    THEN SelectSeq(re_split(t, sep, keep, <<>>, <<>>), LAMBDA x : Len(x) > 0)
    ELSE [i \in 1..Len(t) |-> <<t[i]>>]

\* separator.join(docs)
RECURSIVE join(_, _)
join(sep, docs) ==
    IF Len(docs) = 0 THEN <<>>
    ELSE IF Len(docs) = 1 THEN docs[1]
    ELSE docs[1] \o sep \o join(sep, Tail(docs))

\* _join_docs: the joined and stripped text; nothing when that is empty.
\* The value is the list of documents to add: empty or one document.
join_docs(docs, sep) ==
    LET doc == strip(join(sep, docs))
    IN IF Len(doc) = 0 THEN <<>> ELSE <<doc>>

\* _merge_splits, the while loop: splits leave current_doc from the front
\* until what stays is within the overlap and leaves room for the next split
RECURSIVE pop_current_doc(_, _, _, _, _, _)
pop_current_doc(cur, total, len, seplen, size, overlap) ==
    IF \/ total > overlap
       \/ /\ total + len + (IF Len(cur) > 0 THEN seplen ELSE 0) > size
          /\ total > 0
    THEN pop_current_doc(Tail(cur),
                         total - (Len(cur[1]) + (IF Len(cur) > 1 THEN seplen ELSE 0)),
                         len, seplen, size, overlap)
    ELSE [current_doc |-> cur, total |-> total]

\* _merge_splits, the for loop from split i on
RECURSIVE merge_splits_from(_, _, _, _, _, _, _, _)
merge_splits_from(splits, i, docs, cur, total, sep, size, overlap) ==
    IF i > Len(splits) THEN docs \o join_docs(cur, sep)
    ELSE LET d == splits[i]
             len == Len(d)
             full == /\ total + len + (IF Len(cur) > 0 THEN Len(sep) ELSE 0) > size
                     /\ Len(cur) > 0
             kept == IF full
                     THEN pop_current_doc(cur, total, len, Len(sep), size, overlap)
                     ELSE [current_doc |-> cur, total |-> total]
             next_doc == Append(kept.current_doc, d)
         IN merge_splits_from(splits, i + 1,
                              IF full THEN docs \o join_docs(cur, sep) ELSE docs,
                              next_doc,
                              kept.total + len
                                  + (IF Len(next_doc) > 1 THEN Len(sep) ELSE 0),
                              sep, size, overlap)

\* _merge_splits: small splits combined into documents of at most `size`
\* characters, each starting with the last `overlap` characters' worth of
\* splits of the one before
merge_splits(splits, sep, size, overlap) ==
    merge_splits_from(splits, 1, <<>>, <<>>, 0, sep, size, overlap)

\* _split_text, the choice of the separator: the first of the hierarchy that
\* is "" or occurs in the text, and the separators left for the pieces
RECURSIVE choose_separator(_, _, _)
choose_separator(t, seps, i) ==
    IF i > Len(seps)
    THEN [separator |-> seps[Len(seps)], new_separators |-> <<>>]
    ELSE IF Len(seps[i]) = 0
    THEN [separator |-> seps[i], new_separators |-> <<>>]
    ELSE IF occurs_in(seps[i], t)
    THEN [separator |-> seps[i],
          new_separators |-> SubSeq(seps, i + 1, Len(seps))]
    ELSE choose_separator(t, seps, i + 1)

\* _split_text without the merge of the splits left after the loop
flush_good_splits_forgotten(good, final, sep, size, overlap) == final
\* _split_text: if _good_splits: final_chunks.extend(_merge_splits(...))
flush_good_splits(good, final, sep, size, overlap) ==
    IF Len(good) > 0 THEN final \o merge_splits(good, sep, size, overlap)
    ELSE final

RECURSIVE split_text(_, _, _, _)
\* _split_text, the loop over the splits from split i on: pieces shorter than
\* the size are collected and merged, a longer piece is split again with the
\* separators left, or kept as it is when none is left
RECURSIVE split_text_from(_, _, _, _, _, _, _, _)
split_text_from(splits, i, good, final, sep, new_separators, size, overlap) ==
    IF i > Len(splits)
    THEN flush_good_splits(good, final, sep, size, overlap)
    ELSE IF Len(splits[i]) < size
    THEN split_text_from(splits, i + 1, Append(good, splits[i]), final, sep,
                         new_separators, size, overlap)
    ELSE split_text_from(splits, i + 1, <<>>,
                         flush_good_splits(good, final, sep, size, overlap)
                            \o (IF Len(new_separators) = 0 THEN <<splits[i]>>
                                ELSE split_text(splits[i], new_separators,
                                                size, overlap)),
                         sep, new_separators, size, overlap)

\* RecursiveCharacterTextSplitter._split_text
split_text(t, seps, size, overlap) ==
    LET c == choose_separator(t, seps, 1)
    IN split_text_from(split_text_with_regex(t, c.separator, keep_separator),
                       1, <<>>, <<>>,
                       IF keep_separator THEN <<>> ELSE c.separator,
                       c.new_separators, size, overlap)

\* _chunk_with_langchain, lines 54-77
chunk_with_langchain(t, size_tokens, overlap_tokens) ==
    split_text(t, separators, chunk_size_chars(size_tokens),
               chunk_overlap_chars(overlap_tokens))

\* preprocess_and_chunk_text is called with a transcript and a token budget
ChunkerInit ==
    /\ recStatus = "absent"
    /\ transcriptionRows = <<>>
    /\ transcriptionBlobs = <<>>
    /\ chunkRows = <<>>
    /\ chunkBlobs = <<>>
    /\ summaryRows = <<>>
    /\ summaryBlobs = <<>>
    /\ nextUuid = 0
    /\ issued = {}
    /\ clock = 0
    /\ faults = 0
    /\ pc = "pp_clean"
    /\ entry = "preprocess_and_chunk_text"
    /\ calls = 1
    /\ trace = <<>>
    /\ chunks = <<>>
    /\ chunk_ids = <<>>
    /\ sc_i = 0
    /\ store_result = NoneVal
    /\ chunk_data = <<>>
    /\ pcr_i = 0
    /\ chunk_summaries = <<>>
    /\ successful_summaries = 0
    /\ failed_summaries = 0
    /\ unified_output = <<>>
    /\ summary_result = NoneVal
    /\ transcription_id = NoneVal
    /\ transcription_result = NoneVal
    /\ summarize_result = NoneVal
    /\ input_text \in Texts
    /\ \E b \in TokenBudgets :
          /\ chunk_size_tokens = b[1]
          /\ chunk_overlap_tokens = b[2]
    /\ cleaned_text = <<>>
    /\ text_chunks = <<>>
    /\ audioStored = TRUE
    /\ recording_file_path = <<RecordingId>>
    /\ storage_errors = <<>>
    /\ delete_response = NoneVal
    /\ run_pc = <<>>
    /\ run_locals = <<>>

\* line 35: cleaned_text = _clean_and_normalize_text(text)
preprocess_and_chunk_text_clean ==
    /\ pc = "pp_clean"
    /\ cleaned_text' = clean_and_normalize_text(input_text)
    /\ pc' = "pp_chunk"
    /\ UNCHANGED <<dbVars, nextUuid, issued, clock, faults, entry, calls, trace,
                   scVars, pcrVars, trVars, input_text, chunk_size_tokens,
                   chunk_overlap_tokens, text_chunks>>
    /\ UNCHANGED <<delVars, concVars>>

\* lines 38-40: chunks = _chunk_with_langchain(cleaned_text, ...); return chunks
preprocess_and_chunk_text_chunk ==
    /\ pc = "pp_chunk"
    /\ text_chunks' = chunk_with_langchain(cleaned_text, chunk_size_tokens,
                                           chunk_overlap_tokens)
    /\ pc' = "done"
    /\ UNCHANGED <<dbVars, nextUuid, issued, clock, faults, entry, calls, trace,
                   scVars, pcrVars, trVars, input_text, chunk_size_tokens,
                   chunk_overlap_tokens, cleaned_text>>
    /\ UNCHANGED <<delVars, concVars>>

ChunkerNext ==
    \/ preprocess_and_chunk_text_clean
    \/ preprocess_and_chunk_text_chunk

ChunkerSpec == ChunkerInit /\ [][ChunkerNext]_vars

\* =========================================================================
\* Properties of process_chunks_for_recording
\* =========================================================================
\* process_chunks_for_recording has returned to _trigger_ai_summarization
\* (chunk_storage_service.py:139-142): summary_result is its return value
PcrReturned ==
    /\ entry = "store_chunks"
    /\ pc \in {"sc_return", "done"}
    /\ "summaries_generated" \notin DOMAIN summary_result

\* the loop over chunk_data (ai_summary_service.py:67-82) has started
PcrInLoopOrAfter ==
    /\ entry = "store_chunks"
    /\ \/ pc \in {"pcr_chunk", "pcr_consolidate", "pcr_upload", "pcr_insert"}
       \/ PcrReturned

\* the chat-completion calls made for chunks in this run, in order
ChunkCalls == Calls("chat_chunk")
\* those of them that failed
FailedChunkCalls == SelectSeq(ChunkCalls, LAMBDA e : e[4] = "error")

\* the run made a consolidation call, or wrote to bucket Summaries or table
\* summaries
ConsolidatedOrWrote ==
    \E n \in 1..Len(trace) :
        \/ trace[n][1] = "chat_consolidate"
        \/ /\ trace[n][1] \in {"upload", "update", "insert"}
           /\ trace[n][2] \in {"Summaries", "summaries"}

\* storing the unified summary raised: the upload failed with an error other
\* than a duplicate, the update after a duplicate failed, or the select after
\* a failed insert failed too
StoreRaised ==
    \E n \in 1..Len(trace) :
        \/ /\ trace[n][1] = "upload"
           /\ trace[n][2] = "Summaries"
           /\ trace[n][4] \in {"error", "exists_update_raises"}
        \/ /\ trace[n][1] = "insert"
           /\ trace[n][2] = "summaries"
           /\ trace[n][4] \in {"raise_select_raises",
                               "raise_landed_select_raises"}

\* the unified summary of this run was stored and its row inserted
StorageWorked ==
    /\ \E n \in 1..Len(trace) :
          /\ trace[n][1] = "upload"
          /\ trace[n][2] = "Summaries"
          /\ trace[n][4] = "ok"
    /\ \E n \in 1..Len(trace) :
          /\ trace[n][1] = "insert"
          /\ trace[n][2] = "summaries"
          /\ trace[n][4] = "ok"

\* C1: whenever a run over N >= 1 chunks has built a unified summary, the keys
\* of its chunk_summaries are exactly chunk_1 .. chunk_N with N = total_chunks
\* = the number of chunks given, whichever chunk calls failed.
C1_KeysAreChunk1ToN ==
    (PcrInLoopOrAfter /\ Len(unified_output) > 0) =>
        LET u == unified_output[1]
        IN /\ u.total_chunks = Len(chunk_data)
           /\ u.total_chunks >= 1
           /\ DOMAIN u.chunk_summaries =
                 {<<"chunk_", i>> : i \in 1..u.total_chunks}
           /\ \A i \in 1..u.total_chunks :
                 u.chunk_summaries[<<"chunk_", i>>].chunk_id = chunk_data[i][1]

\* C1 witness: a returned run over two chunks whose first chunk call failed
\* and whose unified summary has the keys chunk_1 and chunk_2
C1_Witness ==
    /\ PcrReturned
    /\ Len(unified_output) > 0
    /\ Len(chunk_data) = 2
    /\ Len(ChunkCalls) = 2
    /\ ChunkCalls[1][4] = "error"
    /\ DOMAIN unified_output[1].chunk_summaries = {<<"chunk_", 1>>, <<"chunk_", 2>>}

\* C2: in every unified summary built, successful_summaries + failed_summaries
\* = total_chunks.
C2_CountersAddUp ==
    (PcrInLoopOrAfter /\ Len(unified_output) > 0) =>
        unified_output[1].successful_summaries + unified_output[1].failed_summaries
            = unified_output[1].total_chunks

\* C2 witness: a run over two chunks, one chunk call failed, returned a unified
\* summary whose two counters add up to 2
C2_Witness ==
    /\ PcrReturned
    /\ "unified_summary" \in DOMAIN summary_result
    /\ summary_result.unified_summary.total_chunks = 2
    /\ Len(FailedChunkCalls) = 1
    /\ summary_result.unified_summary.successful_summaries
         + summary_result.unified_summary.failed_summaries = 2

\* C3 (as the claim states it): when the model call failed for k of N chunks,
\* 0 < k < N, and storage worked, the run returns partial_success with
\* failed_summaries = k and successful_summaries = N - k, and the consolidation
\* call was given all N entries.
C3_FailedCallsCounted ==
    (/\ PcrReturned
     /\ Len(FailedChunkCalls) > 0
     /\ Len(FailedChunkCalls) < Len(chunk_data)
     /\ StorageWorked) =>
        /\ summary_result.status = "partial_success"
        /\ summary_result.unified_summary.failed_summaries = Len(FailedChunkCalls)
        /\ summary_result.unified_summary.successful_summaries
             = Len(chunk_data) - Len(FailedChunkCalls)
        /\ \E n \in 1..Len(trace) :
              /\ trace[n][1] = "chat_consolidate"
              /\ Len(trace[n][2]) = Len(chunk_data)

\* C4 (as the claim states it): the run returns success iff failed_summaries = 0
\* and total_chunks > 0, whatever the storage outcomes.
C4_SuccessIffNoFailures_AsClaimed ==
    PcrReturned =>
        (summary_result.status = "success"
            <=> (failed_summaries = 0 /\ Len(chunk_data) > 0))

\* C4 (amended): the run returns success iff failed_summaries = 0 and
\* total_chunks > 0 and storing the unified summary raised no error.
C4_SuccessIffNoFailuresAndStored ==
    PcrReturned =>
        (summary_result.status = "success"
            <=> (failed_summaries = 0 /\ Len(chunk_data) > 0 /\ ~StoreRaised))

\* C4 witness: both sides of the equivalence false for the storage reason: no
\* failure counted, chunks given, the upload raised, and the run returned error
C4_Witness ==
    /\ PcrReturned
    /\ pc = "done"
    /\ failed_summaries = 0
    /\ Len(chunk_data) > 0
    /\ StoreRaised
    /\ summary_result.status = "error"

\* C5 (as the claim states it): the run returns error iff successful_summaries
\* = 0, whatever the storage outcomes.
C5_ErrorIffNoneSucceeded_AsClaimed ==
    PcrReturned =>
        (summary_result.status = "error" <=> successful_summaries = 0)

\* C5 (amended): the run returns error iff successful_summaries = 0 or storing
\* the unified summary raised an error.
C5_ErrorIffNoneSucceededOrStoreRaised ==
    PcrReturned =>
        (summary_result.status = "error"
            <=> (successful_summaries = 0 \/ StoreRaised))

\* C5 witness: a run with two summaries counted as successful whose update
\* after a duplicate upload raised, so it returned error
C5_Witness ==
    /\ PcrReturned
    /\ successful_summaries = 2
    /\ \E n \in 1..Len(trace) :
          /\ trace[n][1] = "update"
          /\ trace[n][2] = "Summaries"
          /\ trace[n][4] = "exists_update_raises"
    /\ summary_result.status = "error"

\* C6: a failed chunk call never aborts the batch: after i iterations there are
\* i calls and i entries, in the order of the chunks given; the entry of a
\* failed call carries the error marker; and once the loop is over every chunk
\* was submitted and has exactly one entry.
C6_FailedCallKeepsBatch ==
    PcrInLoopOrAfter =>
        /\ Len(ChunkCalls) = pcr_i
        /\ Len(chunk_summaries) = pcr_i
        /\ \A i \in 1..pcr_i :
              /\ ChunkCalls[i][2] = chunk_data[i][1]
              /\ ChunkCalls[i][3] = chunk_data[i][2]
              /\ chunk_summaries[i].chunk_id = chunk_data[i][1]
              /\ (ChunkCalls[i][4] = "error")
                   <=> (chunk_summaries[i].chunk_summary[1]
                           = "Error generating summary: ")
        /\ pc # "pcr_chunk" => pcr_i = Len(chunk_data)

\* C6 witness: the first of two chunk calls failed, the second was made and
\* succeeded, and the loop ended with two entries, the first an error marker
C6_Witness ==
    /\ entry = "store_chunks"
    /\ pc = "pcr_consolidate"
    /\ Len(chunk_data) = 2
    /\ Len(ChunkCalls) = 2
    /\ ChunkCalls[1][4] = "error"
    /\ ChunkCalls[2][4] = "ok"
    /\ Len(chunk_summaries) = 2
    /\ IsErrorMarker(chunk_summaries[1].chunk_summary)
    /\ ~IsErrorMarker(chunk_summaries[2].chunk_summary)

\* C7: a run given zero chunks, or one that produced no chunk summary, returns
\* error without a consolidation call and without a write to bucket Summaries
\* or table summaries.
C7_NothingToSummarizeIsError ==
    (PcrReturned /\ (Len(chunk_data) = 0 \/ Len(chunk_summaries) = 0)) =>
        /\ summary_result.status = "error"
        /\ ~ConsolidatedOrWrote
        /\ Len(unified_output) = 0

\* C7 witness: a run given zero chunks has returned error
C7_Witness ==
    /\ PcrReturned
    /\ pc = "done"
    /\ Len(chunk_data) = 0
    /\ summary_result.status = "error"
    /\ Len(trace) = 1

\* =========================================================================
\* Properties of summarize_recording and of the stored state
\* =========================================================================
\* the external calls and writes the short circuit is meant to save
ModelCallOrWrite ==
    \E n \in 1..Len(trace) :
        trace[n][1] \in {"stt", "chat_chunk", "chat_consolidate", "upload",
                         "insert", "update", "process_transcription"}

\* C8 (as the claim states it): summarize_recording, invoked for a recording
\* whose status is summarized (and read as such) and which has a persisted
\* unified summary, returns that summary and makes no speech-to-text or chat
\* call and no write.
C8_SummarizedShortCircuits ==
    (/\ entry = "summarize_recording"
     /\ pc = "done"
     /\ trace[1][3] = "summarized"
     /\ trace[2][4]
     /\ Len(get_existing_summary(TRUE, TRUE)) > 0) =>
        /\ summarize_result.status = "success"
        /\ summarize_result.unified_summary
             = get_existing_summary(TRUE, TRUE)[1].unified_summary
        /\ ~ModelCallOrWrite

\* C9 (as the claim states it): however often store_chunks (and with it
\* _store_unified_summary_with_metadata) is invoked for the recording with the
\* same chunks, the stored state holds no more than a single run leaves: one
\* blob and one row per chunk, one summary blob and one summary row.
C9_RerunAddsNothing ==
    /\ Cardinality(DOMAIN chunkBlobs) <= Len(chunks)
    /\ Len(chunkRows) <= Len(chunks)
    /\ Cardinality(DOMAIN summaryBlobs) <= 1
    /\ Len(summaryRows) <= 1

\* C10 (as the claim states it): after any number of completed runs the
\* summaries table holds at most one row for the recording, and that row
\* points at the unified summary of the most recent run.
C10_OneSummaryRowPerRecording ==
    (pc = "done" /\ entry = "store_chunks") =>
        LET rows == rows_of(summaryRows, RecordingId)
        IN /\ Len(rows) <= 1
           /\ (/\ Len(rows) = 1
               /\ "summary_id" \in DOMAIN summary_result
               /\ StorageWorked)
                => rows[1].summary_id = summary_result.summary_id

\* =========================================================================
\* Properties of the error handling of the stores
\* =========================================================================
\* C11 (as the claim states it): when the Summaries upload fails with an error
\* other than a duplicate, or the summaries insert fails with no row for the
\* summary id in the table, the run returns status error.
C11_StoreFailureIsError ==
    (/\ PcrReturned
     /\ \E n \in 1..Len(trace) :
           \/ /\ trace[n][1] = "upload"
              /\ trace[n][2] = "Summaries"
              /\ trace[n][4] = "error"
           \/ /\ trace[n][1] = "insert"
              /\ trace[n][2] = "summaries"
              /\ trace[n][4] \in {"raise_missing", "raise_select_raises"}) =>
        summary_result.status = "error"

\* C12: in store_chunks an upload answered "already exists" raises nothing:
\* the next call is the insert of that chunk's row, and the chunk id is in the
\* result once store_chunks returns.
C12_DuplicateUploadIsSuccess ==
    entry = "store_chunks" =>
        \A n \in 1..Len(trace) :
            (/\ trace[n][1] = "upload"
             /\ trace[n][2] = "Chunks"
             /\ trace[n][4] = "exists") =>
                /\ n = Len(trace) => pc = "sc_insert"
                /\ n < Len(trace) =>
                      /\ trace[n + 1][1] = "insert"
                      /\ trace[n + 1][2] = "chunk"
                      /\ trace[n + 1][3] = trace[n][3][3]
                /\ pc = "done" =>
                      \E i \in 1..Len(store_result.chunk_ids) :
                          store_result.chunk_ids[i] = trace[n][3][3]

\* C12 witness: store_chunks returned success after an upload answered
\* "already exists"; the chunk's row is in the table and its id in the result
C12_Witness ==
    /\ entry = "store_chunks"
    /\ pc = "done"
    /\ store_result.status = "success"
    /\ \E n \in 1..Len(trace) :
          /\ trace[n][1] = "upload"
          /\ trace[n][2] = "Chunks"
          /\ trace[n][4] = "exists"
          /\ \E i \in 1..Len(store_result.chunk_ids) :
                store_result.chunk_ids[i] = trace[n][3][3]
          /\ \E k \in 1..Len(chunkRows) : chunkRows[k].chunk_id = trace[n][3][3]

\* the rows of a table of the store_chunks pipeline that carry an identifier
RowsWithId(table, id) ==
    IF table = "chunk"
    THEN SelectSeq(chunkRows, LAMBDA r : r.chunk_id = id)
    ELSE SelectSeq(summaryRows, LAMBDA r : r.summary_id = id)

\* C13: in store_chunks and _store_unified_summary_with_metadata an insert that
\* raises while a row with the identifier exists is a success: the select for
\* the identifier follows, the insert is not made again, one row carries the
\* identifier, store_chunks does not raise and the summarizer returns its
\* usual result.
C13_InsertConflictIsSuccess ==
    entry = "store_chunks" =>
        \A n \in 1..Len(trace) :
            (trace[n][1] = "insert" /\ trace[n][4] = "raise_found") =>
                /\ n < Len(trace)
                /\ trace[n + 1][1] = "select"
                /\ trace[n + 1][2] = trace[n][2]
                /\ trace[n + 1][3] = trace[n][3]
                /\ \A k \in 1..Len(trace) :
                      (/\ k # n
                       /\ trace[k][1] = "insert"
                       /\ trace[k][2] = trace[n][2]) => trace[k][3] # trace[n][3]
                /\ Len(RowsWithId(trace[n][2], trace[n][3])) = 1
                /\ ~(pc = "raised" /\ n + 1 = Len(trace))
                /\ (trace[n][2] = "summaries" /\ PcrReturned) =>
                      /\ summary_result.status # "error"
                      /\ summary_result.summary_id = trace[n][3]

\* C13 witness: a chunk insert and the summaries insert both raised with the
\* row in the table, and store_chunks returned success with a summary
C13_Witness ==
    /\ entry = "store_chunks"
    /\ pc = "done"
    /\ \E n \in 1..Len(trace) :
          /\ trace[n][1] = "insert"
          /\ trace[n][2] = "chunk"
          /\ trace[n][4] = "raise_found"
    /\ \E n \in 1..Len(trace) :
          /\ trace[n][1] = "insert"
          /\ trace[n][2] = "summaries"
          /\ trace[n][4] = "raise_found"
    /\ store_result.status = "success"
    /\ store_result.summarization_status = "success"

\* the statuses a result may carry
ResultStatuses == {"success", "partial_success", "error"}

\* C14: process_chunks_for_recording and summarize_recording never raise:
\* whatever fails, they return a result whose status is success,
\* partial_success or error.  store_chunks raises only from its own loop,
\* before the summarizer is called.
C14_NeverPropagates ==
    /\ PcrReturned => summary_result.status \in ResultStatuses
    /\ (entry = "store_chunks" /\ pc = "raised") => Len(chunk_data) = 0
    /\ entry = "summarize_recording" => pc # "raised"
    /\ (entry = "summarize_recording" /\ pc = "done") =>
          summarize_result.status \in ResultStatuses

\* C14 witness: summarize_recording returned status error after the
\* speech-to-text call of the transcription it started had raised
C14_Witness ==
    /\ entry = "summarize_recording"
    /\ pc = "done"
    /\ \E n \in 1..Len(trace) : trace[n][1] = "stt" /\ trace[n][3] = "error"
    /\ summarize_result.status = "error"

\* the keys an error result must not carry
SummaryKeys == {"unified_summary", "summary_id", "summary_path"}

\* C15: a result of process_chunks_for_recording or summarize_recording whose
\* status is error carries no unified_summary, summary_id or summary_path.
C15_ErrorCarriesNoSummary ==
    /\ (PcrReturned /\ summary_result.status = "error") =>
          DOMAIN summary_result \cap SummaryKeys = {}
    /\ (/\ entry = "summarize_recording"
        /\ pc = "done"
        /\ summarize_result.status = "error") =>
          DOMAIN summarize_result \cap SummaryKeys = {}

\* C15 witness: the unified summary was built, storing it raised, and the
\* error result returned carries none of the three keys
C15_Witness ==
    /\ PcrReturned
    /\ Len(unified_output) > 0
    /\ summary_result.status = "error"
    /\ DOMAIN summary_result = {"status", "message", "recording_id"}

\* =========================================================================
\* Properties of the consolidation step
\* =========================================================================
\* the outcome of the consolidation call of this run
ConsolidationCalls == Calls("chat_consolidate")

\* C16: when the consolidation call fails or its response does not parse, with
\* storage working, the run does not report error: its status is the one the
\* counters give, and the unified summary is in the bucket with its row.
C16_ConsolidationNeverFailsRun ==
    (/\ PcrReturned
     /\ Len(ConsolidationCalls) = 1
     /\ ConsolidationCalls[1][3] \in {"not_json", "error"}
     /\ \A n \in 1..Len(trace) :
          (/\ trace[n][1] \in {"upload", "insert"}
           /\ trace[n][2] \in {"Summaries", "summaries"}) => trace[n][4] = "ok") =>
        /\ summary_result.status # "error"
        /\ summary_result.status =
              (IF failed_summaries = 0 THEN "success" ELSE "partial_success")
        /\ <<summary_result.summary_id, ".json">> \in DOMAIN summaryBlobs
        /\ summaryBlobs[<<summary_result.summary_id, ".json">>]
              = summary_result.unified_summary
        /\ \E k \in 1..Len(summaryRows) :
              summaryRows[k].summary_id = summary_result.summary_id

\* C16 witness: the consolidation call raised and the run returned success
\* with the unified summary stored
C16_Witness ==
    /\ PcrReturned
    /\ Len(ConsolidationCalls) = 1
    /\ ConsolidationCalls[1][3] = "error"
    /\ summary_result.status = "success"
    /\ <<summary_result.summary_id, ".json">> \in DOMAIN summaryBlobs

\* C17 (as the claim states it): whatever the outcome of the consolidation
\* call, the consolidated_summary of the unified summary has the fields
\* executive_summary, key_points and detailed_summary.
C17_ConsolidatedAlwaysThreeFields ==
    (PcrInLoopOrAfter /\ Len(unified_output) > 0) =>
        {"executive_summary", "key_points", "detailed_summary"}
            \subseteq DOMAIN unified_output[1].consolidated_summary

\* a text, given as the sequence of its parts, has x among its parts
Contains(text, x) == \E k \in 1..Len(text) : text[k] = x

\* C18 (as the claim states it): when the consolidation call raised, each of
\* executive_summary, key_points and detailed_summary contains the
\* description of the error.
C18_ErrorInAllThreeFields ==
    (/\ PcrInLoopOrAfter
     /\ Len(unified_output) > 0
     /\ Len(ConsolidationCalls) = 1
     /\ ConsolidationCalls[1][3] = "error") =>
        /\ Contains(unified_output[1].consolidated_summary.executive_summary, "e")
        /\ Contains(unified_output[1].consolidated_summary.key_points, "e")
        /\ Contains(unified_output[1].consolidated_summary.detailed_summary, "e")

\* the summary text the i-th chunk call of this run produced
SummaryOfCall(i) ==
    IF ChunkCalls[i][4] = "ok"
    THEN <<"summary of ", chunk_data[i][2]>>
    ELSE <<"Error generating summary: ", "e">>

\* C19: entry chunk_i of the unified summary carries the id and the summary of
\* the i-th chunk given, and the consolidation call is given the chunk
\* summaries in that order.
C19_OriginalOrderKept ==
    (PcrInLoopOrAfter /\ Len(ConsolidationCalls) = 1) =>
        /\ Len(ConsolidationCalls[1][2]) = Len(chunk_data)
        /\ \A i \in 1..Len(chunk_data) :
              ConsolidationCalls[1][2][i]
                  = <<i, chunk_data[i][1], SummaryOfCall(i)>>
        /\ Len(unified_output) > 0 =>
              \A i \in 1..Len(chunk_data) :
                  /\ unified_output[1].chunk_summaries[<<"chunk_", i>>].chunk_id
                        = chunk_data[i][1]
                  /\ unified_output[1].chunk_summaries[<<"chunk_", i>>].chunk_summary
                        = SummaryOfCall(i)

\* C19 witness: two chunks, the first call failed; the consolidation call got
\* the marker first and the summary of the second chunk second
C19_Witness ==
    /\ PcrReturned
    /\ Len(chunk_data) = 2
    /\ Len(ConsolidationCalls) = 1
    /\ ConsolidationCalls[1][2][1][3] = <<"Error generating summary: ", "e">>
    /\ ConsolidationCalls[1][2][2][3] = <<"summary of ", <<"text", 2>>>>
    /\ Len(unified_output) > 0
    /\ unified_output[1].chunk_summaries[<<"chunk_", 2>>].chunk_id = chunk_ids[2]

\* =========================================================================
\* Properties of the chunk payloads
\* =========================================================================
\* C20: the payloads store_chunks writes carry chunk_number 1..N in the order
\* of the chunk texts, each with total_chunks = N; the chunk ids of a call are
\* pairwise distinct, and no identifier is handed out twice, in this call or
\* an earlier one.
C20_ChunkNumbersAndFreshIds ==
    /\ Cardinality(issued) = nextUuid
    /\ \A path \in DOMAIN chunkBlobs :
          /\ chunkBlobs[path].total_chunks = Len(chunks)
          /\ chunkBlobs[path].chunk_number \in 1..Len(chunks)
          /\ chunkBlobs[path].chunk_data = chunks[chunkBlobs[path].chunk_number]
    /\ entry = "store_chunks" =>
          /\ \A i, j \in 1..Len(chunk_ids) :
                i # j => chunk_ids[i] # chunk_ids[j]
          /\ \A i \in 1..Len(chunk_ids) :
                <<RecordingId, TranscriptionArg, chunk_ids[i], ".json">>
                       \in DOMAIN chunkBlobs =>
                    chunkBlobs[<<RecordingId, TranscriptionArg, chunk_ids[i],
                                 ".json">>].chunk_number = i
          /\ pc = "done" => Len(chunk_ids) = Len(chunks)

\* C20 witness: the second call over two chunks has returned; the bucket holds
\* four payloads, those of this call numbered 1 and 2
C20_Witness ==
    /\ entry = "store_chunks"
    /\ pc = "done"
    /\ calls = 2
    /\ Len(chunks) = 2
    /\ Cardinality(DOMAIN chunkBlobs) = 4
    /\ chunkBlobs[<<RecordingId, TranscriptionArg, chunk_ids[1], ".json">>].chunk_number = 1
    /\ chunkBlobs[<<RecordingId, TranscriptionArg, chunk_ids[2], ".json">>].chunk_number = 2

\* =========================================================================
\* Properties of store_chunks
\* =========================================================================
\* the uploads to bucket Chunks and the inserts into table chunk of this run
ChunkUploads == SelectSeq(trace, LAMBDA e : e[1] = "upload" /\ e[2] = "Chunks")
ChunkInserts == SelectSeq(trace, LAMBDA e : e[1] = "insert" /\ e[2] = "chunk")

\* C21: store_chunks returns one chunk id per chunk given, in the order of the
\* chunks: the i-th id is the one generated for the i-th chunk, the one its
\* upload and its row carry.
C21_ReturnsIdsInInputOrder ==
    (entry = "store_chunks" /\ pc = "done") =>
        /\ Len(store_result.chunk_ids) = Len(chunks)
        /\ Len(ChunkUploads) = Len(chunks)
        /\ \A i \in 1..Len(chunks) :
              /\ ChunkUploads[i][3][3] = store_result.chunk_ids[i]
              /\ ChunkInserts[i][3] = store_result.chunk_ids[i]
              /\ ChunkUploads[i][4] = "ok" =>
                    /\ chunkBlobs[ChunkUploads[i][3]].chunk_id
                          = store_result.chunk_ids[i]
                    /\ chunkBlobs[ChunkUploads[i][3]].chunk_data = chunks[i]

\* C21 witness: store_chunks over two chunks returned two distinct ids, the
\* first the id of the payload holding the first text, the second that of the
\* second
C21_Witness ==
    /\ entry = "store_chunks"
    /\ pc = "done"
    /\ Len(chunks) = 2
    /\ Len(store_result.chunk_ids) = 2
    /\ store_result.chunk_ids[1] # store_result.chunk_ids[2]
    /\ \A i \in 1..2 :
          /\ ChunkUploads[i][4] = "ok"
          /\ chunkBlobs[ChunkUploads[i][3]].chunk_id = store_result.chunk_ids[i]
          /\ chunkBlobs[ChunkUploads[i][3]].chunk_data = <<"text", i>>

\* C22 (as the claim states it): a store_chunks call over N chunks in which
\* every external call succeeded made exactly N uploads and exactly N inserts
\* in total.
C22_OneUploadOneInsertPerChunk_AsClaimed ==
    (entry = "store_chunks" /\ pc = "done" /\ faults = 0) =>
        /\ Len(Calls("upload")) = Len(chunks)
        /\ Len(Calls("insert")) = Len(chunks)

\* C22 (amended): a store_chunks call over N chunks that returned made exactly
\* N uploads to bucket Chunks and N inserts into table chunk, the upload of a
\* chunk followed by the insert of its row, each upload at the path
\* {recording_id}/{transcription_id}/{chunk_id}.json; every other upload and
\* insert of the call is the one upload to bucket Summaries and the one insert
\* into table summaries of the summarization it triggers, each made at most
\* once, and exactly once when the summarization returned a summary: N + 1
\* uploads and N + 1 inserts in total when every call succeeded and N > 0.
C22_OneUploadOneInsertPerChunk ==
    (entry = "store_chunks" /\ pc = "done") =>
        LET SummaryUploads ==
                SelectSeq(trace, LAMBDA e : e[1] = "upload" /\ e[2] = "Summaries")
            SummaryInserts ==
                SelectSeq(trace, LAMBDA e : e[1] = "insert" /\ e[2] = "summaries")
        IN /\ Len(ChunkUploads) = Len(chunks)
           /\ Len(ChunkInserts) = Len(chunks)
           /\ \A i \in 1..Len(chunks) :
                 /\ ChunkUploads[i][3]
                       = <<RecordingId, TranscriptionArg, chunk_ids[i], ".json">>
                 /\ ChunkInserts[i][3] = chunk_ids[i]
                 /\ \E n \in 1..(Len(trace) - 1) :
                       /\ trace[n][1] = "upload"
                       /\ trace[n][2] = "Chunks"
                       /\ trace[n][3][3] = chunk_ids[i]
                       /\ trace[n + 1][1] = "insert"
                       /\ trace[n + 1][2] = "chunk"
                       /\ trace[n + 1][3] = chunk_ids[i]
           /\ Len(Calls("upload")) = Len(chunks) + Len(SummaryUploads)
           /\ Len(Calls("insert")) = Len(chunks) + Len(SummaryInserts)
           /\ Len(SummaryInserts) <= Len(SummaryUploads)
           /\ Len(SummaryUploads) <= 1
           /\ "unified_summary" \in DOMAIN summary_result =>
                 (Len(SummaryUploads) = 1 /\ Len(SummaryInserts) = 1)
           /\ (faults = 0 /\ Len(chunks) > 0) =>
                 /\ Len(Calls("upload")) = Len(chunks) + 1
                 /\ Len(Calls("insert")) = Len(chunks) + 1

\* C22 witness: store_chunks over two chunks returned with every upload and
\* insert answered ok: two objects in the bucket and two rows in the table
C22_Witness ==
    /\ entry = "store_chunks"
    /\ pc = "done"
    /\ calls = 1
    /\ Len(chunks) = 2
    /\ Len(ChunkUploads) = 2
    /\ Len(ChunkInserts) = 2
    /\ \A i \in 1..2 : ChunkUploads[i][4] = "ok" /\ ChunkInserts[i][4] = "ok"
    /\ Cardinality(DOMAIN chunkBlobs) = 2
    /\ Len(chunkRows) = 2
    /\ faults = 0
    /\ Len(Calls("upload")) = 3
    /\ Len(Calls("insert")) = 3
    /\ Len(summaryRows) = 1

\* =========================================================================
\* Properties of preprocess_and_chunk_text
\* =========================================================================
\* preprocess_and_chunk_text has returned: text_chunks is its return value
ChunkerReturned == entry = "preprocess_and_chunk_text" /\ pc = "done"

\* C23 (as the claim states it): preprocess_and_chunk_text returns an empty
\* list for the empty text and for no other, at least one chunk otherwise.
C23_EmptyOnlyForEmptyInput_AsClaimed ==
    ChunkerReturned => (Len(text_chunks) = 0 <=> Len(input_text) = 0)

\* C23 (amended): preprocess_and_chunk_text returns at least one chunk for
\* every text with a character that is not whitespace, and an empty list
\* exactly for the texts that are empty or all whitespace.
C23_EmptyOnlyForBlankInput ==
    ChunkerReturned => (Len(text_chunks) = 0 <=>
                           \A i \in 1..Len(input_text) :
                               input_text[i] \in {" ", "\n"})

\* C23 witness: a text of two whitespace characters gave no chunk
C23_Witness ==
    /\ ChunkerReturned
    /\ input_text = <<" ", "\n">>
    /\ text_chunks = <<>>

\* Chunks i, i+1, ... of cs lie in t from left to right, the one before them
\* at positions ps..pe: each starts no later than the position after the end
\* of the one before (with skip = 1: or one position further, over a space),
\* ends no earlier than it, and the last one ends with t.
RECURSIVE CoveredFrom(_, _, _, _, _, _)
CoveredFrom(t, cs, i, ps, pe, skip) ==
    IF i > Len(cs) THEN pe = Len(t)
    ELSE \E st \in ps..(pe + 1 + skip) :
            /\ st + Len(cs[i]) - 1 <= Len(t)
            /\ st + Len(cs[i]) - 1 >= pe
            /\ st = pe + 2 => t[pe + 1] = " "
            /\ SubSeq(t, st, st + Len(cs[i]) - 1) = cs[i]
            /\ CoveredFrom(t, cs, i + 1, st, st + Len(cs[i]) - 1, skip)

\* C24 (as the claim states it): the chunks lie in the normalized text in
\* order, the first from its first character, each next one starting within
\* or right after the one before, the last one ending with the text: with the
\* overlaps removed their concatenation is the normalized text.
C24_ChunksCoverText_AsClaimed ==
    (ChunkerReturned /\ Len(input_text) > 0) =>
        CoveredFrom(cleaned_text, text_chunks, 1, 1, 0, 0)

\* C24 (amended): the same, except that a single space of the normalized text
\* may be missing between two adjacent chunks.
C24_ChunksCoverTextButSpaces ==
    (ChunkerReturned /\ Len(input_text) > 0) =>
        CoveredFrom(cleaned_text, text_chunks, 1, 1, 0, 1)

\* C24 witness: "aaa a" gave the chunks "aaa" and "a": the space between them
\* is in neither
C24_Witness ==
    /\ ChunkerReturned
    /\ cleaned_text = <<"a", "a", "a", " ", "a">>
    /\ text_chunks = << <<"a", "a", "a">>, <<"a">> >>

\* C28: no chunk returned is longer than chunk_size_tokens * 4 characters,
\* also when the text has none of the separators but the empty one.
C28_ChunksWithinSize ==
    ChunkerReturned =>
        \A i \in 1..Len(text_chunks) :
            Len(text_chunks[i]) <= chunk_size_tokens * 4

\* C28 witness: five letters with no separator among them, budget one token:
\* two chunks, the first of four characters
C28_Witness ==
    /\ ChunkerReturned
    /\ chunk_size_tokens = 1
    /\ cleaned_text = <<"a", "a", "a", "a", "a">>
    /\ Len(text_chunks) = 2
    /\ text_chunks[1] = <<"a", "a", "a", "a">>

\* C29: the text handed to the splitter has no uppercase character, no
\* whitespace at either end and no two whitespace characters in a row, and
\* normalizing it again returns it unchanged.
C29_NormalizedAndIdempotent ==
    (entry = "preprocess_and_chunk_text" /\ pc \in {"pp_chunk", "done"}) =>
        /\ \A i \in 1..Len(cleaned_text) : cleaned_text[i] # "B"
        /\ Len(cleaned_text) > 0 =>
              /\ cleaned_text[1] \notin {" ", "\n"}
              /\ cleaned_text[Len(cleaned_text)] \notin {" ", "\n"}
        /\ \A i \in 1..(Len(cleaned_text) - 1) :
              ~(/\ cleaned_text[i] \in {" ", "\n"}
                /\ cleaned_text[i + 1] \in {" ", "\n"})
        /\ clean_and_normalize_text(cleaned_text) = cleaned_text

\* C29 witness: " B\n a" was normalized to "b a"
C29_Witness ==
    /\ entry = "preprocess_and_chunk_text"
    /\ pc = "pp_chunk"
    /\ input_text = <<" ", "B", "\n", " ", "a">>
    /\ cleaned_text = <<"b", " ", "a">>

\* =========================================================================
\* Properties of transcribe_recording and summarize_recording
\* =========================================================================
\* the calls of one kind made by this run, by their position in the trace
Positions(kind) == {n \in 1..Len(trace) : trace[n][1] = kind}

\* C25 (as the claim states it): a transcribe_recording run in which the
\* recording was found, the audio downloaded, the speech-to-text call answered,
\* the transcription stored and text processing triggered made these steps in
\* this order, each once, and returned status success with the transcription.
C25_SuccessfulTranscriptionInOrder ==
    (/\ entry = "transcribe_recording"
     /\ pc = "done"
     /\ Len(Calls("process_transcription")) = 1) =>
        /\ Len(Calls("stt")) = 1
        /\ Len(Calls("download")) = 1
        /\ Len(Calls("upload")) = 1
        /\ Len(Calls("insert")) = 1
        /\ \A d \in Positions("download"), t \in Positions("stt"),
              u \in Positions("upload"), i \in Positions("insert"),
              p \in Positions("process_transcription") :
                 2 < d /\ d < t /\ t < u /\ u < i /\ i < p
        /\ trace[2][1] = "select"
        /\ trace[2][2] = "recordings"
        /\ transcription_result.status = "success"
        /\ transcription_result.transcription = "transcript"

\* the look-up of the recording's transcription rows by summarize_recording
\* (line 311), with the number of rows it returned
TranscriptionLookups ==
    SelectSeq(trace, LAMBDA e : e[1] = "select" /\ e[2] = "transcription"
                                  /\ Len(e) = 4)

\* C26 (as the claim states it): a summarize_recording run that is not
\* short-circuited, and in which no external call failed, calls speech-to-text
\* exactly when the look-up returned no transcription row, at most once, and
\* then makes the chunk calls, the consolidation call and the upload of the
\* unified summary, in this order.
C26_SttIffNoTranscriptionThenPipeline ==
    (/\ entry = "summarize_recording"
     /\ pc = "done"
     /\ faults = 0
     /\ Len(TranscriptionLookups) = 1) =>
        /\ Len(Calls("stt")) <= 1
        /\ Len(Calls("stt")) = 1 <=> TranscriptionLookups[1][4] = 0
        /\ \E a, b, c \in 1..Len(trace) :
              /\ a < b
              /\ b < c
              /\ trace[a][1] = "chat_chunk"
              /\ trace[b][1] = "chat_consolidate"
              /\ trace[c][1] = "upload"
              /\ trace[c][2] = "Summaries"

\* C27: the summary summarize_recording returns for a recording with several
\* summaries rows is the one whose row has the latest created_at, with the
\* document that row points at.
C27_ReturnsLatestSummary ==
    (/\ entry = "summarize_recording"
     /\ pc = "done"
     /\ "already_existed" \in DOMAIN summarize_result) =>
        \E k \in 1..Len(summaryRows) :
            /\ summaryRows[k].summary_id = summarize_result.summary_id
            /\ summaryRows[k].summary_path = summarize_result.summary_path
            /\ \A j \in 1..Len(summaryRows) :
                  summaryRows[j].created_at <= summaryRows[k].created_at
            /\ summarize_result.unified_summary
                  = summaryBlobs[<<summaryRows[k].summary_id, ".json">>]

\* C27 witness: two summaries rows, the second persisted by a store_chunks
\* call after the first; summarize_recording returned the second
C27_Witness ==
    /\ entry = "summarize_recording"
    /\ pc = "done"
    /\ "already_existed" \in DOMAIN summarize_result
    /\ Len(summaryRows) = 2
    /\ summaryRows[1].created_at < summaryRows[2].created_at
    /\ summarize_result.summary_id = summaryRows[2].summary_id
    /\ summarize_result.summary_id # summaryRows[1].summary_id

\* C30: whenever summarize_recording has returned status success, the
\* recording's stored status is summarized. The only return of success the
\* code reaches is the one for a recording already summarized (lines 294-308);
\* the path that transcribes first and the path that reuses a transcription
\* return error (C25), so on them the statement holds with no success.
C30_SuccessLeavesSummarized ==
    (entry = "summarize_recording" /\ pc = "done") =>
        (summarize_result.status = "success" =>
            /\ recStatus = "summarized"
            /\ trace[1][3] = "summarized")

\* C30 witness: summarize_recording returned success for a recording whose
\* stored status is summarized, having read its status and its summary
C30_Witness ==
    /\ entry = "summarize_recording"
    /\ pc = "done"
    /\ summarize_result.status = "success"
    /\ recStatus = "summarized"
    /\ Len(trace) = 4
    /\ trace[3][1] = "select" /\ trace[3][2] = "summaries"
    /\ trace[4][1] = "download" /\ trace[4][2] = "Summaries"

\* =========================================================================
\* Properties of the order of blob writes and metadata inserts
\* =========================================================================
\* the upload to a bucket at a path, made before position n of the trace and
\* answered with one of the given outcomes
UploadedBefore(n, bucket, path, outcomes) ==
    \E m \in 1..(n - 1) :
        /\ trace[m][1] = "upload"
        /\ trace[m][2] = bucket
        /\ trace[m][3] = path
        /\ trace[m][4] \in outcomes

\* C33: every row of the chunk table and of the summaries table references a
\* blob that is in its bucket, and every insert into these tables comes after
\* the upload of its blob was answered with success or with "already exists"
\* (for a summary: and the update that follows did not fail); after a hard
\* upload failure the insert is not made.
C33_BlobWrittenBeforeRow ==
    /\ \A k \in 1..Len(chunkRows) :
          Tail(chunkRows[k].chunk_path) \in DOMAIN chunkBlobs
    /\ \A k \in 1..Len(summaryRows) :
          Tail(summaryRows[k].summary_path) \in DOMAIN summaryBlobs
    /\ \A n \in Positions("insert") :
          /\ trace[n][2] = "chunk" =>
                UploadedBefore(n, "Chunks",
                               <<RecordingId, TranscriptionArg, trace[n][3], ".json">>,
                               {"ok", "exists"})
          /\ trace[n][2] = "summaries" =>
                UploadedBefore(n, "Summaries", <<trace[n][3], ".json">>,
                               {"ok", "exists_updated"})

\* C33 witness: a store_chunks call returned after a chunk upload answered
\* "already exists" and the summary upload answered "already exists" and was
\* updated; both rows were inserted
C33_Witness ==
    /\ entry = "store_chunks"
    /\ pc = "done"
    /\ \E n \in Positions("insert") :
          /\ trace[n][2] = "chunk"
          /\ trace[n][4] = "ok"
          /\ UploadedBefore(n, "Chunks",
                            <<RecordingId, TranscriptionArg, trace[n][3], ".json">>,
                            {"exists"})
    /\ \E n \in Positions("insert") :
          /\ trace[n][2] = "summaries"
          /\ trace[n][4] = "ok"
          /\ UploadedBefore(n, "Summaries", <<trace[n][3], ".json">>,
                            {"exists_updated"})

\* =========================================================================
\* Properties of store_chunks and the summarization it triggers
\* =========================================================================
\* C35: a store_chunks call raises only inside the loop over the chunks; once
\* the loop is through it returns status success with the ids of all chunks,
\* and summarization_status is the status the summarization returned (error
\* when the summarizer could not be built, produced nothing or could not
\* store its summary).
C35_SummarizationNeverFailsStorage ==
    /\ (entry = "store_chunks" /\ pc = "raised") => sc_i < Len(chunks)
    /\ (entry = "store_chunks" /\ pc = "done") =>
          /\ store_result.status = "success"
          /\ store_result.chunks_stored = Len(chunks)
          /\ store_result.chunk_ids = chunk_ids
          /\ Len(chunk_ids) = Len(chunks)
          /\ store_result.summarization_status = summary_result.status
          /\ StoreRaised => store_result.summarization_status = "error"
          /\ Len(chunks) = 0 => store_result.summarization_status = "error"

\* C35 witness: both chunks were stored, storing the unified summary raised,
\* and store_chunks returned success with summarization_status error
C35_Witness ==
    /\ entry = "store_chunks"
    /\ pc = "done"
    /\ Len(chunks) = 2
    /\ StoreRaised
    /\ store_result.status = "success"
    /\ Len(store_result.chunk_ids) = 2
    /\ store_result.summarization_status = "error"

\* _trigger_ai_summarization was called by this store_chunks call (line 102)
SummarizationTriggered ==
    /\ entry = "store_chunks"
    /\ pc \in {"pcr_begin", "pcr_chunk", "pcr_consolidate", "pcr_upload",
               "pcr_insert", "sc_return", "done"}

\* the blob and the metadata row of the chunk with this id are stored
ChunkStored(cid) ==
    /\ <<RecordingId, TranscriptionArg, cid, ".json">> \in DOMAIN chunkBlobs
    /\ \E k \in 1..Len(chunkRows) : chunkRows[k].chunk_id = cid

\* C34 (as the claim states it): summarization is triggered only when the blob
\* and the metadata row of every chunk of the call are stored; a call that
\* raised triggered no summarization and made no model call, and the chunks
\* it stored before the failure are still stored.
C34_SummarizationAfterAllChunksStored ==
    /\ SummarizationTriggered =>
          /\ Len(chunk_ids) = Len(chunks)
          /\ \A i \in 1..Len(chunk_ids) : ChunkStored(chunk_ids[i])
    /\ (entry = "store_chunks" /\ pc = "raised") =>
          /\ Len(Calls("chat_chunk")) = 0
          /\ Len(Calls("chat_consolidate")) = 0
          /\ \A i \in 1..sc_i : ChunkStored(chunk_ids[i])

\* =========================================================================
\* Properties of the error handling of transcribe_recording
\* =========================================================================
\* a transcribe_recording call invoked from outside has returned
TrReturned == entry = "transcribe_recording" /\ pc = "done"

\* the call found the recording row (line 52) and downloaded its audio file
\* (line 61)
TrDownloaded ==
    /\ trace[1][3] # "absent"
    /\ trace[2][4]
    /\ Len(trace) >= 3
    /\ trace[3][1] = "download"
    /\ trace[3][4]

\* the call made no speech-to-text call and no write (no upload, insert or
\* update), so tables and buckets are as it found them, and the status of the
\* recording is the one it found
TrWroteNothing ==
    /\ Len(Calls("stt")) = 0
    /\ Len(Calls("upload")) = 0
    /\ Len(Calls("insert")) = 0
    /\ Len(Calls("update")) = 0
    /\ recStatus = trace[1][3]

\* the update of the recording's status to 'error' (line 95) and its outcome
ErrorUpdates ==
    SelectSeq(trace, LAMBDA e : e[1] = "update" /\ e[2] = "recordings"
                                  /\ e[3] = "error")

\* C36 (as the claim states it): an unknown recording or a failed download
\* gives status error with nothing called or written and the status unchanged;
\* every failure after the download leaves the recording's status error.
C36_FailureAfterDownloadSetsError_AsClaimed ==
    TrReturned =>
        /\ ~TrDownloaded =>
              (transcription_result.status = "error" /\ TrWroteNothing)
        /\ (TrDownloaded /\ transcription_result.status = "error") =>
              recStatus = "error"

\* C36 (amended): as above, but a failure after the download leaves the
\* status error only if the status update of the error handler succeeds; if
\* that update fails too, it is only logged and the status is not error.
C36_FailureAfterDownloadSetsErrorIfUpdated ==
    TrReturned =>
        /\ ~TrDownloaded =>
              (transcription_result.status = "error" /\ TrWroteNothing)
        /\ (TrDownloaded /\ transcription_result.status = "error") =>
              /\ Len(ErrorUpdates) = 1
              /\ ErrorUpdates[1][4] = "ok" => recStatus = "error"
              /\ ErrorUpdates[1][4] = "error" =>
                    recStatus \in {trace[1][3], "processing"}

\* C36 witness: the speech-to-text call failed after the download, the update
\* of the status to error failed too, and the call returned error with the
\* status of the recording as it was
C36_Witness ==
    /\ TrReturned
    /\ TrDownloaded
    /\ \E n \in Positions("stt") : trace[n][3] = "error"
    /\ transcription_result.status = "error"
    /\ Len(ErrorUpdates) = 1
    /\ ErrorUpdates[1][4] = "error"
    /\ trace[1][3] = "recorded"
    /\ recStatus = "recorded"

\* =========================================================================
\* Properties of the results of summarize_recording
\* =========================================================================
\* C32: every success result of summarize_recording carries a unified_summary,
\* a summary_id and a summary_path that are not null: they are those of a
\* summaries row of the recording and of the document in bucket Summaries the
\* row points to. The only success return the code reaches is the short
\* circuit (lines 300-308); the transcribe-first and the existing-
\* transcription path return error (C25), without the three fields.
C32_SuccessCarriesSummary ==
    (entry = "summarize_recording" /\ pc = "done") =>
        (summarize_result.status = "success" =>
            /\ SummaryKeys \subseteq DOMAIN summarize_result
            /\ \E k \in 1..Len(summaryRows) :
                  /\ summaryRows[k].recording_id = RecordingId
                  /\ summarize_result.summary_id = summaryRows[k].summary_id
                  /\ summarize_result.summary_path = summaryRows[k].summary_path
                  /\ strip_bucket(summaryRows[k].summary_path)
                        \in DOMAIN summaryBlobs
                  /\ summarize_result.unified_summary =
                        summaryBlobs[strip_bucket(summaryRows[k].summary_path)]
                  /\ summarize_result.unified_summary.summary_id =
                        summaryRows[k].summary_id)

\* C32 witness: a success result of the short circuit with the id and path of
\* the one summaries row and the document of two chunks it points to
C32_Witness ==
    /\ entry = "summarize_recording"
    /\ pc = "done"
    /\ summarize_result.status = "success"
    /\ summarize_result.already_existed
    /\ Len(summaryRows) = 1
    /\ summarize_result.summary_id = summaryRows[1].summary_id
    /\ summarize_result.summary_path = <<"Summaries", summaryRows[1].summary_id,
                                         ".json">>
    /\ summarize_result.unified_summary.total_chunks = 2

\* C37 (as the claim states it): when the look-up of summarize_recording
\* returns several transcription rows, the transcription the run works on is
\* the row created last, in whatever order the rows were returned.
C37_MostRecentTranscriptionUsed ==
    (/\ entry = "summarize_recording"
     /\ pc = "done"
     /\ Len(TranscriptionLookups) = 1
     /\ TranscriptionLookups[1][4] > 1) =>
        LET rows == rows_of(transcriptionRows, RecordingId)
        IN transcription_id = rows[Len(rows)].transcription_id

\* =========================================================================
\* Properties of delete_recording
\* =========================================================================
DelReturned == entry = "delete_recording" /\ pc = "done"

\* the call read the recording row and found it (lines 293-295)
DelKnown == Len(trace) >= 2 /\ trace[2][4] /\ trace[1][3] # "absent"

\* the deletes of the recording row made by this call
RowDeletePositions == {n \in Positions("delete") : trace[n][2] = "recordings"}

\* C39: the delete of the recording row is the last call of delete_recording,
\* made after the deletes on tables summaries, chunk and transcription and the
\* clean-up of buckets Transcription, Chunks, Summaries and, when the row names
\* a file_path, of the audio file in bucket recordings were attempted, in this
\* order (with no file_path no call goes to bucket recordings); a known recording always gets as far as the
\* delete of its row, whatever failed before, and its row is gone only by that
\* delete; an unknown recording is answered 404 with no delete attempted.
C39_RecordingRowDeletedLast ==
    entry = "delete_recording" =>
        /\ \A n \in RowDeletePositions :
              /\ n = Len(trace)
              /\ trace[3][1] = "delete" /\ trace[3][2] = "summaries"
              /\ trace[4][1] = "delete" /\ trace[4][2] = "chunk"
              /\ trace[5][1] = "delete" /\ trace[5][2] = "transcription"
              /\ \E d, e, f \in 6..(n - 1) :
                    /\ d < e /\ e < f
                    /\ trace[d][1] = "list" /\ trace[d][2] = "Transcription"
                    /\ trace[e][1] = "list" /\ trace[e][2] = "Chunks"
                    /\ trace[f][1] = "list" /\ trace[f][2] = "Summaries"
                    /\ LET audio == {g \in 1..(n - 1) :
                                       /\ trace[g][1] = "remove"
                                       /\ trace[g][2] = "recordings"}
                       IN IF recording_file_path = <<>>
                          THEN audio = {}
                          ELSE audio = {n - 1} /\ f < n - 1
        /\ (recStatus = "absent" /\ trace[1][3] # "absent") =>
              /\ RowDeletePositions # {}
              /\ trace[Len(trace)][3] = "ok"
        /\ (DelReturned /\ DelKnown) =>
              /\ RowDeletePositions # {}
              /\ delete_response.status_code = 200 <=> trace[Len(trace)][3] = "ok"
              /\ delete_response.status_code = 200 <=> recStatus = "absent"
        /\ (DelReturned /\ Len(trace) >= 2 /\ ~DelKnown) =>
              /\ delete_response.status_code = 404
              /\ \A n \in 1..Len(trace) :
                    trace[n][1] \notin {"delete", "list", "remove"}
              /\ RowDeletePositions = {}
              /\ recStatus = trace[1][3]

\* C39 witness: the delete on table summaries and a bucket clean-up failed, and
\* the recording row was deleted all the same; the summaries rows are left
C39_Witness ==
    /\ DelReturned
    /\ DelKnown
    /\ trace[3][3] = "error"
    /\ Len(storage_errors) > 0
    /\ delete_response.status_code = 200
    /\ "storage_warnings" \in DOMAIN delete_response
    /\ recStatus = "absent"
    /\ Len(summaryRows) > 0

\* =========================================================================
\* Properties of two concurrent runs
\* =========================================================================
\* document doc was built by run r alone: it is the unified output of r, its
\* chunk summaries are of chunks r was called with, and its counters are r's
BuiltBy(doc, r) ==
    LET l == run_locals[r]
    IN /\ l.unified_output = <<doc>>
       /\ doc.recording_id = RecordingId
       /\ doc.total_chunks = Len(l.chunk_data)
       /\ doc.successful_summaries = l.successful_summaries
       /\ doc.failed_summaries = l.failed_summaries
       /\ doc.chunk_summaries = chunk_summaries_dict(l.chunk_summaries)
       /\ \A k \in DOMAIN doc.chunk_summaries :
             \E i \in 1..Len(l.chunk_data) :
                 doc.chunk_summaries[k].chunk_id = l.chunk_data[i][1]

\* C38: however the steps of two runs for one recording interleave, a run that
\* returned has a well-formed result (an error with a message, or a status, the
\* unified summary it built, its summary id and path, with the blob at that
\* path being that very summary), and every summaries row points to a blob
\* whose summary_id is the row's and which exactly one run built alone; no two
\* rows share a summary id.
C38_ConcurrentRunsKeepSummariesApart ==
    /\ \A r \in Runs :
         run_pc[r] = "done" =>
            LET res == run_locals[r].summary_result
            IN /\ res.recording_id = RecordingId
               /\ IF "unified_summary" \in DOMAIN res
                  THEN /\ DOMAIN res = {"status", "message", "recording_id",
                                        "unified_summary", "summary_id",
                                        "summary_path"}
                       /\ res.status \in {"success", "partial_success", "error"}
                       /\ BuiltBy(res.unified_summary, r)
                       /\ res.summary_id = res.unified_summary.summary_id
                       /\ res.summary_path =
                              <<"Summaries", res.summary_id, ".json">>
                       /\ strip_bucket(res.summary_path) \in DOMAIN summaryBlobs
                       /\ summaryBlobs[strip_bucket(res.summary_path)] =
                              res.unified_summary
                  ELSE /\ DOMAIN res = {"status", "message", "recording_id"}
                       /\ res.status = "error"
    /\ \A k \in 1..Len(summaryRows) :
         LET row == summaryRows[k]
             p == strip_bucket(row.summary_path)
         IN /\ p \in DOMAIN summaryBlobs
            /\ summaryBlobs[p].summary_id = row.summary_id
            /\ row.recording_id = RecordingId
            /\ \E r \in Runs :
                 /\ BuiltBy(summaryBlobs[p], r)
                 /\ \A q \in Runs \ {r} :
                       run_locals[q].unified_output # <<summaryBlobs[p]>>
            /\ \A j \in 1..Len(summaryRows) :
                 j # k => summaryRows[j].summary_id # row.summary_id

\* C38 witness: run 2 uploaded its summary between the upload and the insert
\* of run 1, both runs returned their summaries, and both rows are there
C38_Witness ==
    /\ \A r \in Runs :
         /\ run_pc[r] = "done"
         /\ "unified_summary" \in DOMAIN run_locals[r].summary_result
    /\ Len(summaryRows) = 2
    /\ Len(chunks) = MaxRunChunks
    /\ \E a, b, c \in 1..Len(trace) :
         /\ a < b /\ b < c
         /\ trace[a][1] = "upload" /\ trace[a][5] = 1
         /\ trace[b][1] = "upload" /\ trace[b][5] = 2
         /\ trace[c][1] = "insert" /\ trace[c][5] = 1

\* =========================================================================
\* Properties of the status summarized
\* =========================================================================
\* C31: in every reachable state a recording whose status is summarized has a
\* persisted unified summary: a summaries row of the recording and the blob in
\* bucket Summaries the row points to.
C31_SummarizedHasPersistedSummary ==
    recStatus = "summarized" =>
        \E k \in 1..Len(summaryRows) :
            /\ summaryRows[k].recording_id = RecordingId
            /\ strip_bucket(summaryRows[k].summary_path) \in DOMAIN summaryBlobs
====
